---- MODULE Spec2Model ----
(***************************************************************************)
(* A model of rlox, a tree-walking Lox interpreter: the token and AST      *)
(* types, the recursive-descent Parser, the Environment, the Interpreter   *)
(* and the driver's run / run_file.                                        *)
(*                                                                         *)
(* Numbers are f64 in the program; here they are exact rationals n/d.      *)
(* Within the literals and program sizes used below no f64 rounding,       *)
(* overflow, infinity or NaN arises, so both agree.                        *)
(***************************************************************************)
EXTENDS Integers, Sequences, FiniteSets, TLC

VARIABLES
    statement,    \* interpret: the statement the loop executed last (<<>> before the first)
    executed,     \* interpret: how many statements of the list the loop has taken
    environment,  \* Interpreter.environment
    output,       \* the lines println! wrote to stdout, in order
    result,       \* interpret's return value, Running while the loop is not over
    tokens,       \* run: the token sequence handed to Parser::new
    parsed,       \* run: what the parser calls returned (NotParsed before)
    HAD_ERROR,    \* rlox::HAD_ERROR
    exit_status,  \* run_file: the process exit status, -1 while the process runs
    pc,           \* run / run_file: the position in the driver
    scanners,     \* the Scanner of each thread that scans
    observed,     \* what each thread read in HAD_ERROR after its scan
    lines         \* run_prompt: the lines read so far, as their tokens

vars == <<statement, executed, environment, output, result,
          tokens, parsed, HAD_ERROR, exit_status, pc, scanners, observed, lines>>

scanVars == <<scanners, observed>>

interpVars == <<statement, executed, environment, output, result>>
driverVars == <<tokens, parsed, HAD_ERROR, exit_status, pc>>

-----------------------------------------------------------------------------
(* Result<T, String> *)

Ok(v) == [ok |-> TRUE, val |-> v, err |-> ""]
Err(message) == [ok |-> FALSE, val |-> <<>>, err |-> message]

-----------------------------------------------------------------------------
(* f64 payloads, as normalised rationals *)

Abs(i) == IF i < 0 THEN -i ELSE i

RECURSIVE Gcd(_, _)
Gcd(i, j) == IF j = 0 THEN i ELSE Gcd(j, i % j)

Rat(n, d) ==
    LET g == Gcd(Abs(n), Abs(d))
        s == IF d < 0 THEN -1 ELSE 1
    IN  [n |-> (s * n) \div g, d |-> (s * d) \div g]

RatInt(i) == [n |-> i, d |-> 1]
RatNeg(x) == [n |-> -x.n, d |-> x.d]
RatAdd(x, y) == Rat(x.n * y.d + y.n * x.d, x.d * y.d)
RatSub(x, y) == Rat(x.n * y.d - y.n * x.d, x.d * y.d)
RatMul(x, y) == Rat(x.n * y.n, x.d * y.d)
RatDiv(x, y) == Rat(x.n * y.d, x.d * y.n)
RatLess(x, y) == x.n * y.d < y.n * x.d
RatIsZero(x) == x.n = 0

-----------------------------------------------------------------------------
(* Token, TokenType *)

TokenType(tag) == [tag |-> tag, num |-> RatInt(0), str |-> ""]
TokenTypeNumber(number) == [tag |-> "Number", num |-> number, str |-> ""]
TokenTypeString(string) == [tag |-> "String", num |-> RatInt(0), str |-> string]
TokenTypeIdentifier(name) == [tag |-> "Identifier", num |-> RatInt(0), str |-> name]

Token(token_type, lexeme, line) ==
    [token_type |-> token_type, lexeme |-> lexeme, line |-> line]

-----------------------------------------------------------------------------
(* Expr, Stmt *)

Literal(token) == [kind |-> "Literal", token |-> token]
Variable(name) == [kind |-> "Variable", name |-> name]
Grouping(expression) == [kind |-> "Grouping", expression |-> expression]
Unary(operator, right) == [kind |-> "Unary", operator |-> operator, right |-> right]
Binary(left, operator, right) ==
    [kind |-> "Binary", left |-> left, operator |-> operator, right |-> right]
Ternary(left, operator1, middle, operator2, right) ==
    [kind |-> "Ternary", left |-> left, operator1 |-> operator1, middle |-> middle,
     operator2 |-> operator2, right |-> right]
Assign(name, value) == [kind |-> "Assign", name |-> name, value |-> value]

StmtExpression(expression) == [kind |-> "Expression", expression |-> expression]
StmtPrint(expression) == [kind |-> "Print", expression |-> expression]
StmtVar(name, initializer) == [kind |-> "Var", name |-> name, initializer |-> initializer]
StmtBlock(statements) == [kind |-> "Block", statements |-> statements]

-----------------------------------------------------------------------------
(* Value *)

ValueNumber(number) == [tag |-> "Number", num |-> number, str |-> "", bool |-> FALSE]
ValueString(string) == [tag |-> "String", num |-> RatInt(0), str |-> string, bool |-> FALSE]
ValueBoolean(boolean) == [tag |-> "Boolean", num |-> RatInt(0), str |-> "", bool |-> boolean]
ValueNil == [tag |-> "Nil", num |-> RatInt(0), str |-> "", bool |-> FALSE]


(* mutant of IsTruthy: the number 0 and the empty string are falsy too *)
IsTruthyZeroIsFalse(value) ==
    CASE value.tag = "Nil" -> FALSE
      [] value.tag = "Boolean" -> value.bool
      [] value.tag = "Number" -> value.num.n # 0
      [] value.tag = "String" -> value.str # ""
      [] OTHER -> TRUE

IsTruthy(value) ==
    CASE value.tag = "Nil" -> FALSE
      [] value.tag = "Boolean" -> value.bool
      [] OTHER -> TRUE

(* impl Display for f64: an integral number prints without a fraction, any *)
(* other as its decimal expansion (exact for the terminating ones).        *)
MaxFractionDigits == 16

RECURSIVE FractionDigits(_, _, _)
FractionDigits(remainder, d, left) ==
    IF remainder = 0 \/ left = 0 THEN ""
    ELSE ToString((remainder * 10) \div d)
         \o FractionDigits((remainder * 10) % d, d, left - 1)

DisplayNumber(x) ==
    LET a == Abs(x.n)
        sign == IF x.n < 0 THEN "-" ELSE ""
    IN  IF a % x.d = 0 THEN sign \o ToString(a \div x.d)
        ELSE sign \o ToString(a \div x.d) \o "."
                  \o FractionDigits(a % x.d, x.d, MaxFractionDigits)

DisplayValue(value) ==
    CASE value.tag = "Number" -> DisplayNumber(value.num)
      [] value.tag = "String" -> value.str
      [] value.tag = "Boolean" -> IF value.bool THEN "true" ELSE "false"
      [] OTHER -> "nil"

(* impl Display for TokenType: an operator prints as its symbol. *)
DisplayTokenType(token_type) ==
    CASE token_type.tag = "Slash" -> "/"
      [] token_type.tag = "Star" -> "*"
      [] token_type.tag = "Plus" -> "+"
      [] token_type.tag = "Minus" -> "-"
      [] token_type.tag = "Greater" -> ">"
      [] token_type.tag = "GreaterEqual" -> ">="
      [] token_type.tag = "Less" -> "<"
      [] token_type.tag = "LessEqual" -> "<="
      [] token_type.tag = "Bang" -> "!"
      [] token_type.tag = "BangEqual" -> "!="
      [] token_type.tag = "Equal" -> "="
      [] token_type.tag = "EqualEqual" -> "=="
      [] token_type.tag = "Comma" -> ","
      [] token_type.tag = "QuestionMark" -> "?"
      [] token_type.tag = "Colon" -> ":"
      [] token_type.tag = "Number" -> DisplayNumber(token_type.num)
      [] token_type.tag \in {"String", "Identifier"} -> token_type.str
      [] OTHER -> token_type.tag

-----------------------------------------------------------------------------
(* Environment *)

NoEnclosing == <<>>
EnvironmentNew == [values |-> <<>>, enclosing |-> NoEnclosing]

Insert(env, name, value) ==
    [env EXCEPT !.values =
        [k \in (DOMAIN env.values) \cup {name} |->
            IF k = name THEN value ELSE env.values[k]]]

UndefinedVariable(name) == "Undefined variable '" \o name \o "'."

RECURSIVE Get(_, _)
Get(env, name) ==
    IF name \in DOMAIN env.values THEN Ok(env.values[name])
    ELSE IF env.enclosing # NoEnclosing THEN Get(env.enclosing[1], name)
    ELSE Err(UndefinedVariable(name))

Define(env, name, value) == Insert(env, name, value)

(* mutant of EnvAssign: the insert comes before the lookup's `?` *)
EnvAssignInsertsFirst(env, name, value) ==
    IF ~Get(env, name).ok THEN [res |-> Get(env, name), env |-> Insert(env, name, value)]
    ELSE [res |-> Ok(<<>>), env |-> Insert(env, name, value)]

(* assign returns the Result and leaves self as the second component *)
EnvAssign(env, name, value) ==
    IF ~Get(env, name).ok THEN [res |-> Get(env, name), env |-> env]
    ELSE [res |-> Ok(<<>>), env |-> Insert(env, name, value)]

-----------------------------------------------------------------------------
(* Interpreter.  Every operator takes the interpreter's environment and    *)
(* returns the Result together with the environment the call leaves        *)
(* behind (&mut self).                                                     *)

Ret(res, env) == [res |-> res, env |-> env]

UnexpectedValues(left, operator, right) ==
    "Unexpected values: '" \o DisplayValue(left) \o "' and '" \o DisplayValue(right)
    \o "' for Binary Expression: " \o DisplayValue(left) \o " "
    \o DisplayTokenType(operator.token_type) \o " " \o DisplayValue(right)

UnexpectedBinary(operator) ==
    "Unexpected token type: '" \o DisplayTokenType(operator.token_type)
    \o "' for Binary Expression"

(* mutant of DivisionByZero: the message leaves the operands out *)
DivisionByZeroWithoutOperands(left, operator, right) == "Division by zero"

DivisionByZero(left, operator, right) ==
    "Division by zero: " \o DisplayNumber(left) \o " "
    \o DisplayTokenType(operator.token_type) \o " " \o DisplayNumber(right)

EvaluateLiteral(token, env) ==
    LET tt == token.token_type
    IN  CASE tt.tag = "Number" -> Ok(ValueNumber(tt.num))
          [] tt.tag = "String" -> Ok(ValueString(tt.str))
          [] tt.tag = "True" -> Ok(ValueBoolean(TRUE))
          [] tt.tag = "False" -> Ok(ValueBoolean(FALSE))
          [] tt.tag = "Nil" -> Ok(ValueNil)
          [] tt.tag = "Identifier" -> Get(env, tt.str)
          [] OTHER -> Err("Unexpected token type: '" \o DisplayTokenType(tt)
                          \o "' for Literal Expresion")

EvaluateUnary(operator, right) ==
    CASE operator.token_type.tag = "Minus" ->
            IF right.tag = "Number" THEN Ok(ValueNumber(RatNeg(right.num)))
            ELSE Err("Unexpected value: '" \o DisplayValue(right)
                     \o "' for Unary Expression: -" \o DisplayValue(right))
      [] operator.token_type.tag = "Bang" -> Ok(ValueBoolean(~IsTruthy(right)))
      [] OTHER -> Err("Unexpected token type: '" \o DisplayTokenType(operator.token_type)
                      \o "' for Unary Expression")

(* mutant of EvaluateComparison: a comparison with an operand that is not  *)
(* a Number is false                                                       *)
EvaluateComparisonFalseOnOthers(left, operator, right) ==
    LET op == operator.token_type.tag
    IN  IF left.tag = "Number" /\ right.tag = "Number"
        THEN CASE op = "Greater" -> Ok(ValueBoolean(RatLess(right.num, left.num)))
               [] op = "Less" -> Ok(ValueBoolean(RatLess(left.num, right.num)))
               [] op = "GreaterEqual" -> Ok(ValueBoolean(~RatLess(left.num, right.num)))
               [] op = "LessEqual" -> Ok(ValueBoolean(~RatLess(right.num, left.num)))
               [] OTHER -> Err(UnexpectedBinary(operator))
        ELSE Ok(ValueBoolean(FALSE))

EvaluateComparison(left, operator, right) ==
    LET op == operator.token_type.tag
    IN  IF left.tag = "Number" /\ right.tag = "Number"
        THEN CASE op = "Greater" -> Ok(ValueBoolean(RatLess(right.num, left.num)))
               [] op = "Less" -> Ok(ValueBoolean(RatLess(left.num, right.num)))
               [] op = "GreaterEqual" -> Ok(ValueBoolean(~RatLess(left.num, right.num)))
               [] op = "LessEqual" -> Ok(ValueBoolean(~RatLess(right.num, left.num)))
               [] OTHER -> Err(UnexpectedBinary(operator))
        ELSE Err(UnexpectedValues(left, operator, right))

(* mutant of EvaluateArithmetic: + concatenates two Strings only *)
EvaluateArithmeticStringsOnly(left, operator, right) ==
    LET op == operator.token_type.tag
    IN  CASE left.tag = "Number" /\ right.tag = "Number" ->
               (CASE op = "Plus" -> Ok(ValueNumber(RatAdd(left.num, right.num)))
                  [] op = "Minus" -> Ok(ValueNumber(RatSub(left.num, right.num)))
                  [] op = "Star" -> Ok(ValueNumber(RatMul(left.num, right.num)))
                  [] op = "Slash" ->
                        IF RatIsZero(right.num)
                        THEN Err(DivisionByZero(left.num, operator, right.num))
                        ELSE Ok(ValueNumber(RatDiv(left.num, right.num)))
                  [] OTHER -> Err(UnexpectedBinary(operator)))
          [] left.tag = "String" /\ right.tag = "String" ->
                IF op = "Plus" THEN Ok(ValueString(left.str \o right.str))
                ELSE Err(UnexpectedBinary(operator))
          [] OTHER -> Err(UnexpectedValues(left, operator, right))

EvaluateArithmetic(left, operator, right) ==
    LET op == operator.token_type.tag
        concat == IF op = "Plus"
                  THEN Ok(ValueString(DisplayValue(left) \o DisplayValue(right)))
                  ELSE Err(UnexpectedBinary(operator))
    IN  CASE left.tag = "Number" /\ right.tag = "Number" ->
               (CASE op = "Plus" -> Ok(ValueNumber(RatAdd(left.num, right.num)))
                  [] op = "Minus" -> Ok(ValueNumber(RatSub(left.num, right.num)))
                  [] op = "Star" -> Ok(ValueNumber(RatMul(left.num, right.num)))
                  [] op = "Slash" ->
                        IF RatIsZero(right.num)
                        THEN Err(DivisionByZero(left.num, operator, right.num))
                        ELSE Ok(ValueNumber(RatDiv(left.num, right.num)))
                  [] OTHER -> Err(UnexpectedBinary(operator)))
          [] left.tag = "String" /\ right.tag = "String" -> concat
          [] left.tag # "String" /\ right.tag = "String" -> concat
          [] left.tag = "String" /\ right.tag # "String" -> concat
          [] OTHER -> Err(UnexpectedValues(left, operator, right))

(* mutant of EvaluateComma: the comma yields its left operand *)
EvaluateCommaYieldsLeft(left, right) == Ok(left)

(* TokenType::Comma => Ok(right) *)
EvaluateComma(left, right) == Ok(right)

(* mutant of ValuesEqual: values are equal when they display alike *)
ValuesEqualByDisplay(left, right) == DisplayValue(left) = DisplayValue(right)

(* #[derive(PartialEq)] on Value: the same variant with the same payload *)
ValuesEqual(left, right) == left = right

EvaluateBinary(left, operator, right) ==
    LET op == operator.token_type.tag
    IN  CASE op = "Comma" -> EvaluateComma(left, right)
          [] op = "EqualEqual" -> Ok(ValueBoolean(ValuesEqual(left, right)))
          [] op = "BangEqual" -> Ok(ValueBoolean(~ValuesEqual(left, right)))
          [] op \in {"Greater", "Less", "GreaterEqual", "LessEqual"} ->
                EvaluateComparison(left, operator, right)
          [] op \in {"Plus", "Minus", "Star", "Slash"} ->
                EvaluateArithmetic(left, operator, right)
          [] OTHER -> Err(UnexpectedBinary(operator))

(* mutant of EvaluateTernary: the number 0 counts as false *)
EvaluateTernaryZeroIsFalse(left, operator1, middle, operator2, right) ==
    IF IsTruthy(left) /\ left # ValueNumber(RatInt(0)) THEN Ok(middle) ELSE Ok(right)

EvaluateTernary(left, operator1, middle, operator2, right) ==
    LET unexpected(tt) ==
            Err("Unexpected token type: '" \o DisplayTokenType(tt)
                \o "' for Ternary Expression: " \o DisplayValue(left) \o " "
                \o DisplayTokenType(operator1.token_type) \o " " \o DisplayValue(middle)
                \o " " \o DisplayTokenType(operator2.token_type) \o " "
                \o DisplayValue(right))
    IN  IF operator1.token_type.tag = "QuestionMark"
        THEN IF operator2.token_type.tag = "Colon"
             THEN IF IsTruthy(left) THEN Ok(middle) ELSE Ok(right)
             ELSE unexpected(operator2.token_type)
        ELSE unexpected(operator1.token_type)

(* mutant of EvaluateAssign: the assignment binds the name and yields nil *)
EvaluateAssignYieldsNil(name, new_val, env) ==
    LET a == EnvAssign(env, name.lexeme, new_val)
    IN  IF a.res.ok THEN Ret(Ok(ValueNil), a.env) ELSE Ret(a.res, a.env)

(* Expr::Assign: the value is evaluated, then assigned; a failed assign    *)
(* returns its error before the Ok(new_val).                               *)
EvaluateAssign(name, new_val, env) ==
    LET a == EnvAssign(env, name.lexeme, new_val)
    IN  IF a.res.ok THEN Ret(Ok(new_val), a.env) ELSE Ret(a.res, a.env)

RECURSIVE EvaluateExpression(_, _)
EvaluateExpression(expression, env) ==
    CASE expression.kind = "Literal" -> Ret(EvaluateLiteral(expression.token, env), env)
      [] expression.kind = "Variable" -> Ret(Get(env, expression.name.lexeme), env)
      [] expression.kind = "Grouping" -> EvaluateExpression(expression.expression, env)
      [] expression.kind = "Unary" ->
            LET right == EvaluateExpression(expression.right, env)
            IN  IF ~right.res.ok THEN right
                ELSE Ret(EvaluateUnary(expression.operator, right.res.val), right.env)
      [] expression.kind = "Binary" ->
            LET left == EvaluateExpression(expression.left, env)
            IN  IF ~left.res.ok THEN left
                ELSE LET right == EvaluateExpression(expression.right, left.env)
                     IN  IF ~right.res.ok THEN right
                         ELSE Ret(EvaluateBinary(left.res.val, expression.operator,
                                                 right.res.val), right.env)
      [] expression.kind = "Ternary" ->
            LET left == EvaluateExpression(expression.left, env)
            IN  IF ~left.res.ok THEN left
                ELSE LET middle == EvaluateExpression(expression.middle, left.env)
                     IN  IF ~middle.res.ok THEN middle
                         ELSE LET right == EvaluateExpression(expression.right, middle.env)
                              IN  IF ~right.res.ok THEN right
                                  ELSE Ret(EvaluateTernary(left.res.val, expression.operator1,
                                               middle.res.val, expression.operator2,
                                               right.res.val), right.env)
      [] expression.kind = "Assign" ->
            LET new_val == EvaluateExpression(expression.value, env)
            IN  IF ~new_val.res.ok THEN new_val
                ELSE EvaluateAssign(expression.name, new_val.res.val, new_val.env)

(* execute_statement returns the Result, the environment and the lines     *)
(* printed so far.                                                         *)
Done(res, env, out) == [res |-> res, env |-> env, out |-> out]

(* mutant of BlockEnter: the block starts with an empty map of its own *)
BlockEnterEmpty(env) == [values |-> <<>>, enclosing |-> <<env>>]

(* Stmt::Block entry: previous = environment.clone(); the current          *)
(* environment keeps its values and gets a copy of itself as enclosing.    *)
BlockEnter(env) == [env EXCEPT !.enclosing = <<env>>]

(* mutant of BlockExit: the block never restores the previous environment *)
BlockExitKeepsInner(previous, inner) == inner

(* Stmt::Block, after the loop over the inner statements: an inner error   *)
(* has left through `?` before the assignment environment = previous.      *)
BlockExit(previous, inner) ==
    IF ~inner.res.ok THEN inner
    ELSE Done(Ok(<<>>), previous, inner.out)

RECURSIVE ExecuteStatement(_, _, _)
RECURSIVE ExecuteAll(_, _, _)

(* `?` on the Result of the first statement of the list *)
ExecuteRest(statements, first) ==
    IF ~first.res.ok THEN first
    ELSE ExecuteAll(Tail(statements), first.env, first.out)

(* for statement in statements { self.execute_statement(statement)?; } *)
ExecuteAll(statements, env, out) ==
    IF statements = <<>> THEN Done(Ok(<<>>), env, out)
    ELSE ExecuteRest(statements, ExecuteStatement(Head(statements), env, out))

(* Stmt::Expression, once the expression is evaluated *)
ExpressionDone(value, out) ==
    IF ~value.res.ok THEN Done(value.res, value.env, out)
    ELSE Done(Ok(<<>>), value.env, out)

(* Stmt::Print, once the expression is evaluated: println!("{}", value) *)
PrintDone(value, out) ==
    IF ~value.res.ok THEN Done(value.res, value.env, out)
    ELSE Done(Ok(<<>>), value.env, Append(out, DisplayValue(value.res.val)))

(* Stmt::Var, once the initializer is evaluated: environment.define *)
VarDone(name, value, out) ==
    IF ~value.res.ok THEN Done(value.res, value.env, out)
    ELSE Done(Ok(<<>>), Define(value.env, name.lexeme, value.res.val), out)

ExecuteStatement(stmt, env, out) ==
    CASE stmt.kind = "Expression" ->
            ExpressionDone(EvaluateExpression(stmt.expression, env), out)
      [] stmt.kind = "Print" ->
            PrintDone(EvaluateExpression(stmt.expression, env), out)
      [] stmt.kind = "Var" ->
            VarDone(stmt.name, EvaluateExpression(stmt.initializer, env), out)
      [] stmt.kind = "Block" ->
            BlockExit(env, ExecuteAll(stmt.statements, BlockEnter(env), out))

-----------------------------------------------------------------------------
(* rlox::report: the line goes to stdout and HAD_ERROR becomes true.  The  *)
(* parser state p carries both along with Parser.tokens and                *)
(* Parser.current, and the trail of the parser: the value of current at    *)
(* each evaluation of previous(), in order.                                *)

ParserNew(toks) ==
    [tokens |-> toks, current |-> 0, out |-> <<>>, had_error |-> FALSE, trail |-> <<>>]

Report(p, line, location, message) ==
    [p EXCEPT !.out = Append(@, "[line " \o ToString(line) \o "] Error "
                                \o location \o ": " \o message),
              !.had_error = TRUE]

(* Parser::error *)
ParserError(p, token, message) ==
    IF token.token_type = TokenType("Eof")
    THEN Report(p, token.line, " at end", message)
    ELSE Report(p, token.line, " at '" \o token.lexeme \o "'", message)

(* Auxiliary functions for the parser; current counts from 0 *)
Peek(p) == p.tokens[p.current + 1]

(* self.tokens[self.current - 1]: with current at 0 the index is out of    *)
(* range and there is no token to return                                   *)
NoToken == Token(TokenType("None"), "", 0)
Previous(p) == IF p.current = 0 THEN NoToken ELSE p.tokens[p.current]

(* previous() is evaluated *)
Traced(p) == [p EXCEPT !.trail = Append(@, p.current)]

IsAtEnd(p) == Peek(p).token_type = TokenType("Eof")
Check(p, tag) == IF IsAtEnd(p) THEN FALSE ELSE Peek(p).token_type = TokenType(tag)

(* advance returns self.previous(); the callers that evaluate previous()   *)
(* themselves do so right after it, at the same cursor                     *)
Advance(p) == Traced(IF ~IsAtEnd(p) THEN [p EXCEPT !.current = @ + 1] ELSE p)
MatchToken(p, tags) == \E tag \in tags : Check(p, tag)

(* consume returns the Result and the parser it leaves behind *)
ParseRet(res, p) == [res |-> res, p |-> p]

Consume(p, tag, message) ==
    IF Check(p, tag) THEN ParseRet(Ok(Previous(Advance(p))), Advance(p))
    ELSE ParseRet(Err(message), ParserError(p, Peek(p), message))

(* `?`-style plumbing: every parsing operator takes and returns          *)
(* [res, p]; a step named ...After receives the [res, p] of the call made  *)
(* just before it and returns it unchanged when it is an Err.              *)

RECURSIVE ParseExpression(_)

GroupingClose(inner, paren) ==
    IF paren.res.ok THEN ParseRet(Ok(Grouping(inner)), paren.p)
    ELSE ParseRet(Err(paren.res.err), paren.p)

GroupingAfter(expr) ==
    IF ~expr.res.ok THEN expr
    ELSE GroupingClose(expr.res.val,
                       Consume(expr.p, "RightParen", "Expect ')' after expression."))

(* primary -> NUMBER | STRING | "false" | "true" | "nil" | "(" expression ")" | IDENTIFIER *)
ParsePrimary(p) ==
    LET tag == Peek(p).token_type.tag
    IN  CASE tag \in {"False", "True", "Nil", "Number", "String"} ->
                ParseRet(Ok(Literal(Previous(Advance(p)))), Advance(p))
          [] tag = "Identifier" ->
                ParseRet(Ok(Variable(Previous(Advance(p)))), Advance(p))
          [] tag = "LeftParen" -> GroupingAfter(ParseExpression(Advance(p)))
          [] OTHER -> ParseRet(Err("Expect expression."), p)

UnaryAfter(operator, right) ==
    IF ~right.res.ok THEN right
    ELSE ParseRet(Ok(Unary(operator, right.res.val)), right.p)

(* unary -> ( "!" | "-" ) unary | primary *)
RECURSIVE ParseUnary(_)
ParseUnary(p) ==
    IF MatchToken(p, {"Bang", "Minus"})
    THEN UnaryAfter(Previous(Advance(p)), ParseUnary(Advance(p)))
    ELSE ParsePrimary(p)

(* mutant of Fold: the new operand is folded into the right operand of    *)
(* the expression built so far, which nests a chain to the right           *)
FoldRightNested(expr, operator, right) ==
    IF ~right.res.ok THEN right
    ELSE IF expr.kind = "Binary"
    THEN ParseRet(Ok(Binary(expr.left, expr.operator,
                            Binary(expr.right, operator, right.res.val))), right.p)
    ELSE ParseRet(Ok(Binary(expr, operator, right.res.val)), right.p)

(* one loop iteration of a binary level, once the right operand is parsed: *)
(* expr = Expr::Binary(Box::new(expr), operator, Box::new(right))          *)
Fold(expr, operator, right) ==
    IF ~right.res.ok THEN right
    ELSE ParseRet(Ok(Binary(expr, operator, right.res.val)), right.p)

(* mutant of MultiplicationLoop: the multiplication level takes the       *)
(* operators of the addition level as its own                              *)
RECURSIVE MultiplicationLoopTakesAddition(_)
MultiplicationLoopTakesAddition(expr) ==
    IF ~expr.res.ok THEN expr
    ELSE IF MatchToken(expr.p, {"Slash", "Star", "Minus", "Plus"})
    THEN MultiplicationLoopTakesAddition(Fold(expr.res.val, Previous(Advance(expr.p)),
                                              ParseUnary(Advance(expr.p))))
    ELSE expr

(* multiplication -> unary ( ( "/" | "*" ) unary )* *)
RECURSIVE MultiplicationLoop(_)
MultiplicationLoop(expr) ==
    IF ~expr.res.ok THEN expr
    ELSE IF MatchToken(expr.p, {"Slash", "Star"})
    THEN MultiplicationLoop(Fold(expr.res.val, Previous(Advance(expr.p)),
                                 ParseUnary(Advance(expr.p))))
    ELSE expr

ParseMultiplication(p) == MultiplicationLoop(ParseUnary(p))

(* addition -> multiplication ( ( "-" | "+" ) multiplication )* *)
RECURSIVE AdditionLoop(_)
AdditionLoop(expr) ==
    IF ~expr.res.ok THEN expr
    ELSE IF MatchToken(expr.p, {"Minus", "Plus"})
    THEN AdditionLoop(Fold(expr.res.val, Previous(Advance(expr.p)),
                           ParseMultiplication(Advance(expr.p))))
    ELSE expr

ParseAddition(p) == AdditionLoop(ParseMultiplication(p))

(* comparison -> addition ( ( ">" | ">=" | "<" | "<=" ) addition )* *)
RECURSIVE ComparisonLoop(_)
ComparisonLoop(expr) ==
    IF ~expr.res.ok THEN expr
    ELSE IF MatchToken(expr.p, {"Greater", "GreaterEqual", "Less", "LessEqual"})
    THEN ComparisonLoop(Fold(expr.res.val, Previous(Advance(expr.p)),
                             ParseAddition(Advance(expr.p))))
    ELSE expr

ParseComparison(p) == ComparisonLoop(ParseAddition(p))

(* equality -> comparison ( ( "!=" | "==" ) comparison )* *)
RECURSIVE EqualityLoop(_)
EqualityLoop(expr) ==
    IF ~expr.res.ok THEN expr
    ELSE IF MatchToken(expr.p, {"BangEqual", "EqualEqual"})
    THEN EqualityLoop(Fold(expr.res.val, Previous(Advance(expr.p)),
                           ParseComparison(Advance(expr.p))))
    ELSE expr

ParseEquality(p) == EqualityLoop(ParseComparison(p))

TernaryAfterRight(left, operator1, middle, operator2, right) ==
    IF ~right.res.ok THEN right
    ELSE ParseRet(Ok(Ternary(left, operator1, middle, operator2, right.res.val)), right.p)

(* mutant of TernaryAfterColon: the right operand is a ternary itself, so *)
(* that a ? b : c ? d : e nests to the right                               *)
RECURSIVE ParseTernary(_)
TernaryAfterColonNests(left, operator1, middle, operator2) ==
    IF ~operator2.res.ok THEN ParseRet(Err(operator2.res.err), operator2.p)
    ELSE TernaryAfterRight(left, operator1, middle, operator2.res.val,
                           ParseTernary(operator2.p))

TernaryAfterColon(left, operator1, middle, operator2) ==
    IF ~operator2.res.ok THEN ParseRet(Err(operator2.res.err), operator2.p)
    ELSE TernaryAfterRight(left, operator1, middle, operator2.res.val,
                           ParseEquality(operator2.p))

TernaryAfterMiddle(left, operator1, middle) ==
    IF ~middle.res.ok THEN middle
    ELSE TernaryAfterColon(left, operator1, middle.res.val,
                           Consume(middle.p, "Colon", "Expect ':' after expression."))

TernaryAfterLeft(expr) ==
    IF ~expr.res.ok THEN expr
    ELSE IF MatchToken(expr.p, {"QuestionMark"})
    THEN TernaryAfterMiddle(expr.res.val, Previous(Advance(expr.p)),
                            ParseEquality(Advance(expr.p)))
    ELSE expr

(* ternary -> equality ( "?" equality ":" equality )? *)
ParseTernary(p) == TernaryAfterLeft(ParseEquality(p))

(* mutant of AssignmentTarget: a variable in parentheses is taken as a     *)
(* target too                                                              *)
AssignmentTargetThroughGrouping(expr, value) ==
    IF ~value.res.ok THEN value
    ELSE IF expr.kind = "Variable"
    THEN ParseRet(Ok(Assign(expr.name, value.res.val)), value.p)
    ELSE IF expr.kind = "Grouping" /\ expr.expression.kind = "Variable"
    THEN ParseRet(Ok(Assign(expr.expression.name, value.res.val)), value.p)
    ELSE ParseRet(Err("Invalid assignment target."), value.p)

(* the target check of assignment, made once the value is parsed *)
AssignmentTarget(expr, value) ==
    IF ~value.res.ok THEN value
    ELSE IF expr.kind = "Variable"
    THEN ParseRet(Ok(Assign(expr.name, value.res.val)), value.p)
    ELSE ParseRet(Err("Invalid assignment target."), value.p)

RECURSIVE ParseAssignment(_)

AssignmentAfterLeft(expr) ==
    IF ~expr.res.ok THEN expr
    ELSE IF MatchToken(expr.p, {"Equal"})
    THEN AssignmentTarget(expr.res.val, ParseAssignment(Advance(expr.p)))
    ELSE expr

(* assignment -> IDENTIFIER "=" assignment | ternary *)
ParseAssignment(p) == AssignmentAfterLeft(ParseTernary(p))

(* comma -> assignment ( "," assignment )* *)
RECURSIVE CommaLoop(_)
CommaLoop(expr) ==
    IF ~expr.res.ok THEN expr
    ELSE IF MatchToken(expr.p, {"Comma"})
    THEN CommaLoop(Fold(expr.res.val, Previous(Advance(expr.p)),
                        ParseAssignment(Advance(expr.p))))
    ELSE expr

ParseComma(p) == CommaLoop(ParseAssignment(p))

(* expression -> comma *)
(* mutant of ParseExpression: the expression must reach the end of input *)
ParseExpressionToTheEnd(p) ==
    LET r == ParseComma(p)
    IN  IF r.res.ok /\ ~IsAtEnd(r.p) THEN ParseRet(Err("Expect end of expression."), r.p)
        ELSE r

ParseExpression(p) == ParseComma(p)

(* Parser::synchronize *)
RECURSIVE SynchronizeLoop(_)

(* one turn of the loop, once previous() is evaluated *)
SynchronizeTurn(p) ==
    IF Previous(p).token_type = TokenType("Semicolon") THEN p
    ELSE IF Peek(p).token_type.tag \in
              {"Class", "Fun", "Var", "For", "If", "While", "Print", "Return"} THEN p
    ELSE SynchronizeLoop(Advance(p))

SynchronizeLoop(p) == IF IsAtEnd(p) THEN p ELSE SynchronizeTurn(Traced(p))

(* mutant of Synchronize: the token at the error is skipped and no other *)
SynchronizeSkipsOneToken(p) == Advance(p)

(* mutant of Synchronize: the loop starts at the token of the error *)
SynchronizeWithoutAdvance(p) == SynchronizeLoop(p)

Synchronize(p) == SynchronizeLoop(Advance(p))

(* the statement is built once its closing token is consumed *)
Close(stmt, closing) ==
    IF ~closing.res.ok THEN closing ELSE ParseRet(Ok(stmt), closing.p)

ExpressionStatementAfter(expr) ==
    IF ~expr.res.ok THEN expr
    ELSE Close(StmtExpression(expr.res.val),
               Consume(expr.p, "Semicolon", "Expect ';' after expression."))

(* exprStmt -> expression ";" *)
ParseExpressionStatement(p) == ExpressionStatementAfter(ParseExpression(p))

PrintStatementAfter(value) ==
    IF ~value.res.ok THEN value
    ELSE Close(StmtPrint(value.res.val),
               Consume(value.p, "Semicolon", "Expect ';' after expression."))

(* printStmt -> "print" expression ";" ; the print token is consumed already *)
ParsePrintStatement(p) == PrintStatementAfter(ParseExpression(p))

VarDeclarationAfter(name, initializer) ==
    IF ~initializer.res.ok THEN initializer
    ELSE Close(StmtVar(name, initializer.res.val),
               Consume(initializer.p, "Semicolon",
                       "Expect ';' after variable declaration."))

VarInitializer(p) ==
    IF MatchToken(p, {"Equal"}) THEN ParseExpression(Advance(p))
    ELSE ParseRet(Ok(Literal(Token(TokenType("Nil"), "nil", 0))), p)

(* varDecl -> "var" IDENTIFIER ( "=" expression )? ";" ; var is consumed already *)
ParseVarDeclaration(p) ==
    IF Peek(p).token_type.tag # "Identifier"
    THEN ParseRet(Err("Expect variable name."), p)
    ELSE VarDeclarationAfter(Previous(Advance(p)), VarInitializer(Advance(p)))

RECURSIVE ParseDeclaration(_)
RECURSIVE BlockLoop(_, _)

BlockAfter(statements, stmt) ==
    IF stmt.res.ok THEN BlockLoop(stmt.p, Append(statements, stmt.res.val))
    ELSE ParseRet(Err(stmt.res.err), Synchronize(stmt.p))

(* block -> "{" declaration* "}" ; the brace is consumed already *)
BlockLoop(p, statements) ==
    IF ~Check(p, "RightBrace") /\ ~IsAtEnd(p)
    THEN BlockAfter(statements, ParseDeclaration(p))
    ELSE Close(StmtBlock(statements), Consume(p, "RightBrace", "Expect '}' after block."))

ParseBlock(p) == BlockLoop(p, <<>>)

(* statement -> exprStmt | printStmt | block *)
ParseStatement(p) ==
    IF MatchToken(p, {"Print"}) THEN ParsePrintStatement(Advance(p))
    ELSE IF MatchToken(p, {"LeftBrace"}) THEN ParseBlock(Advance(p))
    ELSE ParseExpressionStatement(p)

(* declaration -> varDecl | statement *)
ParseDeclaration(p) ==
    IF MatchToken(p, {"Var"}) THEN ParseVarDeclaration(Advance(p))
    ELSE ParseStatement(p)

RECURSIVE ParseLoop(_, _)

(* mutant of ParseAfter: a failed declaration is skipped and the loop goes *)
(* on to the end of the input                                              *)
ParseAfterSkipsError(statements, stmt) ==
    IF stmt.res.ok THEN ParseLoop(stmt.p, Append(statements, stmt.res.val))
    ELSE ParseLoop(Synchronize(stmt.p), statements)

(* match self.declaration(): Ok pushes the statement, Err synchronizes and *)
(* returns the error                                                       *)
ParseAfter(statements, stmt) ==
    IF stmt.res.ok THEN ParseLoop(stmt.p, Append(statements, stmt.res.val))
    ELSE ParseRet(Err(stmt.res.err), Synchronize(stmt.p))

(* program -> declaration* EOF *)
ParseLoop(p, statements) ==
    IF IsAtEnd(p) THEN ParseRet(Ok(statements), p)
    ELSE ParseAfter(statements, ParseDeclaration(p))

Parse(p) == ParseLoop(p, <<>>)

-----------------------------------------------------------------------------
(* Scanner.  The source is the sequence of its characters, each a string   *)
(* of length one; start and current count from 0 as in the code.  A panic  *)
(* (unwrap() of a character past the end) stops the scan: panicked.        *)

ScannerNew(source) ==
    [source |-> source, tokens |-> <<>>, start |-> 0, current |-> 0, line |-> 1,
     out |-> <<>>, had_error |-> FALSE, panicked |-> FALSE]

Nul == "\\0"

Digits == {"0", "1", "2", "3", "4", "5", "6", "7", "8", "9"}

Letters ==
    {"a", "b", "c", "d", "e", "f", "g", "h", "i", "j", "k", "l", "m", "n", "o", "p", "q",
     "r", "s", "t", "u", "v", "w", "x", "y", "z", "A", "B", "C", "D", "E", "F", "G", "H",
     "I", "J", "K", "L", "M", "N", "O", "P", "Q", "R", "S", "T", "U", "V", "W", "X", "Y",
     "Z"}

IsAsciiDigit(c) == c \in Digits
IsAsciiAlphabetic(c) == c \in Letters
IsAsciiAlphanumeric(c) == c \in Letters \cup Digits

(* the String of a slice of the source *)
RECURSIVE Text(_)
Text(chars) == IF chars = <<>> THEN "" ELSE Head(chars) \o Text(Tail(chars))

(* self.source[from..to] *)
Slice(sc, from, to) == Text(SubSeq(sc.source, from + 1, to))

ScannerIsAtEnd(sc) == sc.current >= Len(sc.source)

(* self.source.chars().nth(self.current).unwrap(); self.current += 1 *)
ScannerAdvance(sc) ==
    IF sc.panicked \/ sc.current >= Len(sc.source) THEN [sc EXCEPT !.panicked = TRUE]
    ELSE [sc EXCEPT !.current = @ + 1]

ScannerPeek(sc) == IF ScannerIsAtEnd(sc) THEN Nul ELSE sc.source[sc.current + 1]

PeekNext(sc) ==
    IF sc.current + 1 >= Len(sc.source) THEN Nul ELSE sc.source[sc.current + 2]

(* match_char: the answer; the caller moves current on when it is true *)
MatchChar(sc, expected) == ~ScannerIsAtEnd(sc) /\ sc.source[sc.current + 1] = expected

AddToken(sc, token_type) ==
    [sc EXCEPT !.tokens = Append(@, Token(token_type, Slice(sc, sc.start, sc.current),
                                          sc.line))]

(* rlox::error(line, message) is report(line, "", message) *)
ScannerError(sc, message) == Report(sc, sc.line, "", message)

OneOrTwo(sc, one, two) ==
    IF MatchChar(sc, "=") THEN AddToken(ScannerAdvance(sc), TokenType(two))
    ELSE AddToken(sc, TokenType(one))

(* while self.peek() != '\n' && !self.is_at_end() { self.advance(); } *)
RECURSIVE LineCommentLoop(_)
LineCommentLoop(sc) ==
    IF ScannerPeek(sc) # "\n" /\ ~ScannerIsAtEnd(sc) THEN LineCommentLoop(ScannerAdvance(sc))
    ELSE sc

CountLine(sc) == IF ScannerPeek(sc) = "\n" THEN [sc EXCEPT !.line = @ + 1] ELSE sc

(* while self.peek() != '*' && self.peek_next() != '/' && !self.is_at_end() *)
RECURSIVE BlockCommentLoop(_)
BlockCommentLoop(sc) ==
    IF ScannerPeek(sc) # "*" /\ PeekNext(sc) # "/" /\ ~ScannerIsAtEnd(sc)
    THEN BlockCommentLoop(ScannerAdvance(CountLine(sc)))
    ELSE sc

BlockCommentClose(sc) ==
    IF ScannerIsAtEnd(sc) THEN ScannerError(sc, "Unterminated block comment")
    ELSE ScannerAdvance(ScannerAdvance(sc))

BlockComment(sc) == BlockCommentClose(BlockCommentLoop(sc))

ScanSlash(sc) ==
    IF MatchChar(sc, "/") THEN LineCommentLoop(ScannerAdvance(sc))
    ELSE IF MatchChar(sc, "*") THEN BlockComment(ScannerAdvance(sc))
    ELSE AddToken(sc, TokenType("Slash"))

RECURSIVE StringLoop(_)
StringLoop(sc) ==
    IF ScannerPeek(sc) # "\"" /\ ~ScannerIsAtEnd(sc)
    THEN StringLoop(ScannerAdvance(CountLine(sc)))
    ELSE sc

StringClose(sc) == AddToken(sc, TokenTypeString(Slice(sc, sc.start + 1, sc.current - 1)))

StringAfter(sc) ==
    IF ScannerIsAtEnd(sc) THEN ScannerError(sc, "Unterminated string")
    ELSE StringClose(ScannerAdvance(sc))

ScanString(sc) == StringAfter(StringLoop(sc))

RECURSIVE DigitsLoop(_)
DigitsLoop(sc) ==
    IF IsAsciiDigit(ScannerPeek(sc)) THEN DigitsLoop(ScannerAdvance(sc)) ELSE sc

FractionAfter(sc) ==
    IF ScannerPeek(sc) = "." /\ IsAsciiDigit(PeekNext(sc))
    THEN DigitsLoop(ScannerAdvance(sc))
    ELSE sc

DigitValue(c) == CHOOSE i \in 0..9 : ToString(i) = c

(* the digits read as one integer, and ten to the number of fraction digits *)
RECURSIVE DigitsValue(_, _)
DigitsValue(chars, acc) ==
    IF chars = <<>> THEN acc
    ELSE IF Head(chars) = "." THEN DigitsValue(Tail(chars), acc)
    ELSE DigitsValue(Tail(chars), 10 * acc + DigitValue(Head(chars)))

RECURSIVE Scale(_, _)
Scale(chars, seen) ==
    IF chars = <<>> THEN 1
    ELSE IF Head(chars) = "." THEN Scale(Tail(chars), TRUE)
    ELSE (IF seen THEN 10 ELSE 1) * Scale(Tail(chars), seen)

(* parse::<f64>() of digits with an optional fraction *)
ParseF64(chars) == Rat(DigitsValue(chars, 0), Scale(chars, FALSE))

NumberClose(sc) ==
    AddToken(sc, TokenTypeNumber(ParseF64(SubSeq(sc.source, sc.start + 1, sc.current))))

ScanNumber(sc) == NumberClose(FractionAfter(DigitsLoop(sc)))

RECURSIVE IdentifierLoop(_)
IdentifierLoop(sc) ==
    IF IsAsciiAlphanumeric(ScannerPeek(sc)) \/ ScannerPeek(sc) = "_"
    THEN IdentifierLoop(ScannerAdvance(sc))
    ELSE sc

(* the reserved words *)
Keyword(text) ==
    CASE text = "and" -> "And"
      [] text = "class" -> "Class"
      [] text = "else" -> "Else"
      [] text = "false" -> "False"
      [] text = "for" -> "For"
      [] text = "fun" -> "Fun"
      [] text = "if" -> "If"
      [] text = "nil" -> "Nil"
      [] text = "or" -> "Or"
      [] text = "print" -> "Print"
      [] text = "return" -> "Return"
      [] text = "super" -> "Super"
      [] text = "this" -> "This"
      [] text = "true" -> "True"
      [] text = "var" -> "Var"
      [] text = "while" -> "While"
      [] OTHER -> "Identifier"

IdentifierClose(sc, text) ==
    IF Keyword(text) = "Identifier" THEN AddToken(sc, TokenTypeIdentifier(text))
    ELSE AddToken(sc, TokenType(Keyword(text)))

IdentifierAfter(sc) == IdentifierClose(sc, Slice(sc, sc.start, sc.current))

ScanIdentifier(sc) == IdentifierAfter(IdentifierLoop(sc))

(* scan_token once its first character c is consumed *)
ScanTokenAfter(sc, c) ==
    CASE c = "(" -> AddToken(sc, TokenType("LeftParen"))
      [] c = ")" -> AddToken(sc, TokenType("RightParen"))
      [] c = "{" -> AddToken(sc, TokenType("LeftBrace"))
      [] c = "}" -> AddToken(sc, TokenType("RightBrace"))
      [] c = "," -> AddToken(sc, TokenType("Comma"))
      [] c = "." -> AddToken(sc, TokenType("Dot"))
      [] c = "-" -> AddToken(sc, TokenType("Minus"))
      [] c = "+" -> AddToken(sc, TokenType("Plus"))
      [] c = ";" -> AddToken(sc, TokenType("Semicolon"))
      [] c = "*" -> AddToken(sc, TokenType("Star"))
      [] c = "!" -> OneOrTwo(sc, "Bang", "BangEqual")
      [] c = "=" -> OneOrTwo(sc, "Equal", "EqualEqual")
      [] c = ">" -> OneOrTwo(sc, "Greater", "GreaterEqual")
      [] c = "<" -> OneOrTwo(sc, "Less", "LessEqual")
      [] c = "/" -> ScanSlash(sc)
      [] c \in {" ", "\r", "\t"} -> sc
      [] c = "\n" -> [sc EXCEPT !.line = @ + 1]
      [] c = "\"" -> ScanString(sc)
      [] OTHER ->
            IF IsAsciiDigit(c) THEN ScanNumber(sc)
            ELSE IF IsAsciiAlphabetic(c) \/ c = "_" THEN ScanIdentifier(sc)
            ELSE ScannerError(sc, "Unexpected character: " \o c)

ScanToken(sc) == ScanTokenAfter(ScannerAdvance(sc), ScannerPeek(sc))

(* self.tokens.push(Token::new(TokenType::Eof, String::from(""), self.line)) *)
ScanEnd(sc) == [sc EXCEPT !.tokens = Append(@, Token(TokenType("Eof"), "", sc.line))]

RECURSIVE ScanLoop(_)
ScanLoop(sc) ==
    IF sc.panicked THEN sc
    ELSE IF ScannerIsAtEnd(sc) THEN ScanEnd(sc)
    ELSE ScanLoop(ScanToken([sc EXCEPT !.start = sc.current]))

ScanTokens(source) == ScanLoop(ScannerNew(source))

-----------------------------------------------------------------------------
(* impl Display for Expr: the text, as the sequence of its characters      *)

(* the words of more than one character the tokens of the model carry *)
LongWords ==
    {<<"!", "=">>, <<"=", "=">>, <<">", "=">>, <<"<", "=">>, <<"\"", "\"">>,
     <<"\"", "a", "\"">>, <<"\"", "1", "\"">>, <<"n", "i", "l">>, <<"v", "a", "r">>,
     <<"t", "r", "u", "e">>, <<"f", "a", "l", "s", "e">>, <<"p", "r", "i", "n", "t">>}

SingleCharacters ==
    Digits \cup Letters
    \cup {"(", ")", "{", "}", ",", ".", "-", "+", ";", "*", "/", "!", "=", ">", "<", "?", ":"}

(* the characters of a String *)
Spell(string) ==
    IF string = "" THEN <<>>
    ELSE IF string \in SingleCharacters THEN <<string>>
    ELSE CHOOSE chars \in LongWords : Text(chars) = string

(* write!(f, "{}", token): the lexeme of the token *)
DisplayToken(token) == Spell(token.lexeme)

RECURSIVE DisplayExpr(_)

DisplayBinary(operator, left, right) ==
    <<"(">> \o DisplayToken(operator) \o <<" ">> \o left \o <<" ">> \o right \o <<")">>

DisplayTernary(operator1, left, middle, operator2, right) ==
    <<"(">> \o DisplayToken(operator1) \o <<" ">> \o left \o <<" ">> \o middle \o <<" ">>
    \o DisplayToken(operator2) \o <<" ">> \o right \o <<")">>

DisplayExpr(e) ==
    CASE e.kind = "Binary" ->
            DisplayBinary(e.operator, DisplayExpr(e.left), DisplayExpr(e.right))
      [] e.kind = "Ternary" ->
            DisplayTernary(e.operator1, DisplayExpr(e.left), DisplayExpr(e.middle),
                           e.operator2, DisplayExpr(e.right))
      [] e.kind = "Grouping" ->
            <<"(", "g", "r", "o", "u", "p", " ">> \o DisplayExpr(e.expression) \o <<")">>
      [] e.kind = "Literal" -> DisplayToken(e.token)
      [] e.kind = "Unary" ->
            <<"(">> \o DisplayToken(e.operator) \o <<" ">> \o DisplayExpr(e.right) \o <<")">>

-----------------------------------------------------------------------------
(* Inputs of the interpreter: the statements a list handed to interpret    *)
(* may hold.                                                               *)

MaxStatements == 3   \* statements in the list handed to interpret
MaxDepth == 3        \* blocks nested inside one another

Names == {"a", "b"}
Numbers == {1, 2}

Line == 1

IdentifierToken(name) == Token(TokenTypeIdentifier(name), name, Line)
NumberToken(i) == Token(TokenTypeNumber(RatInt(i)), ToString(i), Line)

(* the source text the scanner keeps as the lexeme of a marker token *)
LexemeOf(tag) ==
    CASE tag = "LeftParen" -> "("
      [] tag = "RightParen" -> ")"
      [] tag = "LeftBrace" -> "{"
      [] tag = "RightBrace" -> "}"
      [] tag = "Comma" -> ","
      [] tag = "Minus" -> "-"
      [] tag = "Plus" -> "+"
      [] tag = "Semicolon" -> ";"
      [] tag = "Star" -> "*"
      [] tag = "Slash" -> "/"
      [] tag = "Bang" -> "!"
      [] tag = "BangEqual" -> "!="
      [] tag = "Equal" -> "="
      [] tag = "EqualEqual" -> "=="
      [] tag = "Greater" -> ">"
      [] tag = "GreaterEqual" -> ">="
      [] tag = "Less" -> "<"
      [] tag = "LessEqual" -> "<="
      [] tag = "QuestionMark" -> "?"
      [] tag = "Colon" -> ":"
      [] tag = "Print" -> "print"
      [] tag = "True" -> "true"
      [] tag = "False" -> "false"
      [] tag = "Nil" -> "nil"
      [] tag = "Var" -> "var"
      [] tag = "Class" -> "class"
      [] tag = "Fun" -> "fun"
      [] tag = "For" -> "for"
      [] tag = "If" -> "if"
      [] tag = "While" -> "while"
      [] tag = "Return" -> "return"
      [] tag = "Eof" -> ""

MarkerToken(tag) == Token(TokenType(tag), LexemeOf(tag), Line)

Number(i) == Literal(NumberToken(i))
Var(name) == Variable(IdentifierToken(name))
Set(name, value) == Assign(IdentifierToken(name), value)
OneByZero == Binary(Number(1), MarkerToken("Slash"), Number(0))

SimpleStatements ==
    {StmtPrint(Var(n)) : n \in Names}
    \cup {StmtVar(IdentifierToken(n), Number(i)) : n \in Names, i \in Numbers}
    \cup {StmtExpression(Set(n, Number(3))) : n \in Names}
    \cup {StmtExpression(Set("a", Var("b"))), StmtExpression(OneByZero)}

BlockBodies ==
    {<<>>} \cup {<<s>> : s \in SimpleStatements}
    \cup {<<s, t>> : s, t \in SimpleStatements}

RECURSIVE Nest(_, _)
Nest(k, stmt) == IF k = 0 THEN stmt ELSE StmtBlock(<<Nest(k - 1, stmt)>>)

Statements ==
    SimpleStatements
    \cup {StmtBlock(body) : body \in BlockBodies}
    \cup {Nest(k, s) : k \in 2..MaxDepth, s \in SimpleStatements}
    \cup {StmtBlock(<<s, StmtBlock(<<t>>)>>) : s, t \in SimpleStatements}

-----------------------------------------------------------------------------
(* Interpreter::interpret, one iteration of its loop per step.  The list   *)
(* is chosen an element at a time: Execute(stmt) is the iteration whose    *)
(* element is stmt, Return the end of the list.                            *)

NotReturned == <<>>
NotParsed == <<>>

(* mutant of Propagate: the loop drops the statement's error and goes on *)
PropagateNothing(res) == NotReturned

(* `?` on the statement's Result: an Err leaves interpret at once *)
Propagate(res) == IF res.ok THEN NotReturned ELSE res

ScannersIdle == scanners = <<>> /\ observed = <<>>

PromptIdle == lines = <<>>

DriverIdle ==
    /\ tokens = <<>>
    /\ parsed = NotParsed
    /\ HAD_ERROR = FALSE
    /\ exit_status = -1
    /\ pc = "idle"

Init ==
    /\ statement = <<>>
    /\ executed = 0
    /\ environment = EnvironmentNew
    /\ output = <<>>
    /\ result = NotReturned
    /\ DriverIdle
    /\ ScannersIdle
    /\ PromptIdle

Execute(stmt) ==
    /\ result = NotReturned
    /\ executed < MaxStatements
    /\ \E r \in {ExecuteStatement(stmt, environment, output)} :
           /\ environment' = r.env
           /\ output' = r.out
           /\ result' = Propagate(r.res)
    /\ statement' = stmt
    /\ executed' = executed + 1
    /\ UNCHANGED driverVars
    /\ UNCHANGED scanVars
    /\ UNCHANGED lines

Return ==
    /\ result = NotReturned
    /\ result' = Ok(<<>>)
    /\ UNCHANGED <<statement, executed, environment, output>>
    /\ UNCHANGED driverVars
    /\ UNCHANGED scanVars
    /\ UNCHANGED lines

Next ==
    \/ \E stmt \in Statements : Execute(stmt)
    \/ Return

Spec == Init /\ [][Next]_vars

-----------------------------------------------------------------------------
(* Inputs of the driver: the token sequences scan_tokens hands to run,     *)
(* each ended by the Eof token.  The sources here scan without a lexical   *)
(* error, so HAD_ERROR is false when the parser starts.                    *)

MaxTokens == 3     \* tokens before Eof in the sources enumerated in full
MaxOperands == 3   \* operands of an operator chain

Eof == MarkerToken("Eof")

Alphabet ==
    {NumberToken(1), IdentifierToken("a")}
    \cup {MarkerToken(tag) : tag \in
            {"Plus", "Minus", "Equal", "Comma", "QuestionMark", "Colon", "LeftParen",
             "RightParen", "Semicolon", "Var", "Print", "LeftBrace", "RightBrace"}}

ShortSources == UNION {[1..k -> Alphabet] : k \in 0..MaxTokens}

BinaryOperators ==
    {"Comma", "BangEqual", "EqualEqual", "Greater", "GreaterEqual", "Less", "LessEqual",
     "Minus", "Plus", "Slash", "Star"}
UnaryOperators == {"Bang", "Minus"}

(* 1 op 2 op 3 ..., the operand at place i being the number i *)
RECURSIVE Chain(_, _)
Chain(ops, i) ==
    IF i > Len(ops) THEN <<NumberToken(i)>>
    ELSE <<NumberToken(i), MarkerToken(ops[i])>> \o Chain(ops, i + 1)

Chains ==
    {Chain(ops, 1) : ops \in UNION {[1..k -> BinaryOperators] : k \in 0..(MaxOperands - 1)}}

Prefix(u) == IF u = "" THEN <<>> ELSE <<MarkerToken(u)>>

UnaryChains ==
    {Prefix(u) \o <<NumberToken(1), MarkerToken(op)>> \o Prefix(v) \o <<NumberToken(2)>> :
        u \in UnaryOperators \cup {""}, v \in UnaryOperators \cup {""},
        op \in BinaryOperators}

ExpressionSources ==
    {Prefix(pre) \o chain \o Prefix(post) :
        pre \in {"", "Print"}, post \in {"", "Semicolon"}, chain \in Chains \cup UnaryChains}

(* var a = 1 ; var b = 2 ; *)
Prelude ==
    <<MarkerToken("Var"), IdentifierToken("a"), MarkerToken("Equal"), NumberToken(1),
      MarkerToken("Semicolon"),
      MarkerToken("Var"), IdentifierToken("b"), MarkerToken("Equal"), NumberToken(2),
      MarkerToken("Semicolon")>>

AssignedExpressions ==
    {<<NumberToken(3)>>,
     <<IdentifierToken("a"), MarkerToken("Plus"), NumberToken(1)>>,
     <<IdentifierToken("a"), MarkerToken("Equal"), IdentifierToken("a"),
       MarkerToken("Plus"), NumberToken(1)>>,
     <<MarkerToken("LeftParen"), IdentifierToken("b"), MarkerToken("Equal"),
       IdentifierToken("b"), MarkerToken("Star"), NumberToken(3),
       MarkerToken("RightParen")>>}

(* [var a = 1 ; var b = 2 ;] [print] x = y = e ; *)
AssignmentSources ==
    {pre \o Prefix(print) \o <<IdentifierToken(x), MarkerToken("Equal"),
                               IdentifierToken(y), MarkerToken("Equal")>>
         \o e \o <<MarkerToken("Semicolon")>> :
        pre \in {<<>>, Prelude}, print \in {"", "Print"},
        x \in Names, y \in Names, e \in AssignedExpressions}

(* the sources of the parser's tests test_program, test_program_error and *)
(* test_program_error2                                                     *)
PrintSum ==
    <<MarkerToken("Print"), IdentifierToken("a"), MarkerToken("Plus"), IdentifierToken("b")>>

TestSources ==
    {Prelude \o PrintSum \o <<MarkerToken("Semicolon")>>,
     Prelude \o PrintSum,
     <<MarkerToken("Var"), IdentifierToken("a"), MarkerToken("Equal"),
       MarkerToken("Semicolon")>>}

(* the tokens the scanner makes of the lexemes of a source, one lexeme a  *)
(* word: identifiers, one-digit numbers, strings, keywords and punctuation *)
StringToken(string) == Token(TokenTypeString(string), "\"" \o string \o "\"", Line)

Markers ==
    {"LeftParen", "RightParen", "LeftBrace", "RightBrace", "Comma", "Minus", "Plus",
     "Semicolon", "Star", "Slash", "Bang", "BangEqual", "Equal", "EqualEqual", "Greater",
     "GreaterEqual", "Less", "LessEqual", "QuestionMark", "Colon", "Print", "Var", "True",
     "False", "Nil", "Class", "Fun", "For", "If", "While", "Return"}

Strings == {"", "a", "1"}

ScanWord(word) ==
    IF word \in Names THEN IdentifierToken(word)
    ELSE IF \E i \in 0..9 : ToString(i) = word
    THEN NumberToken(CHOOSE i \in 0..9 : ToString(i) = word)
    ELSE IF \E string \in Strings : StringToken(string).lexeme = word
    THEN StringToken(CHOOSE string \in Strings : StringToken(string).lexeme = word)
    ELSE MarkerToken(CHOOSE tag \in Markers : LexemeOf(tag) = word)

Scan(words) == [i \in DOMAIN words |-> ScanWord(words[i])]

(* a program that declares a and b and prints an expression *)
PrintProgram(expression) ==
    Prelude \o <<MarkerToken("Print")>> \o expression \o <<MarkerToken("Semicolon")>>

(* ternaries: the sources of test_ternary_expression and                  *)
(* test_ternary_error, conditions of every truthiness, and branches that   *)
(* assign or fail                                                          *)
TernaryEvaluated ==
    {<<"true", "?", "1", ":", "2">>,
     <<"false", "?", "1", ":", "2">>,
     <<"1", "!=", "2", "?", "1", "+", "2", ":", "2", "-", "1">>,
     <<"1", "==", "2", "?", "1", "+", "2", ":", "2", "-", "1">>,
     <<"1", "==", "2", "?", "1", "/", "0", ":", "2", "+", "3">>,
     <<"true", "?", "1", ":", "1", "/", "0">>,
     <<"0", "?", "1", ":", "2">>,
     <<"\"\"", "?", "1", ":", "2">>,
     <<"nil", "?", "1", ":", "2">>,
     <<"true", "?", "(", "a", "=", "3", ")", ":", "(", "a", "=", "4", ")">>,
     <<"false", "?", "(", "a", "=", "3", ")", ":", "(", "a", "=", "4", ")">>,
     <<"(", "a", "=", "3", ")", "?", "a", ":", "(", "a", "=", "4", ")">>,
     <<"(", "a", "=", "nil", ")", "?", "(", "b", "=", "a", ")", ":", "a">>,
     <<"true", "?", "(", "a", "=", "3", ")", ":", "1", "/", "0">>,
     <<"true", "?", "1", "/", "0", ":", "(", "a", "=", "4", ")">>}

TernaryPrograms ==
    {PrintProgram(Scan(words)) : words \in TernaryEvaluated}
    \cup {Scan(words) : words \in TernaryEvaluated}

(* the forms a source made of one expression comes in: alone, as an       *)
(* expression statement, as a print statement                              *)
Forms(expressions) ==
    {Prefix(pre) \o expression \o Prefix(post) :
        pre \in {"", "Print"}, post \in {"", "Semicolon"}, expression \in expressions}

(* what stands left of an `=`: a variable, a literal, a grouping, a unary, *)
(* a binary and a ternary expression                                       *)
Targets ==
    {<<IdentifierToken("a")>>,
     <<NumberToken(1)>>,
     <<MarkerToken("LeftParen"), IdentifierToken("a"), MarkerToken("RightParen")>>,
     <<MarkerToken("Minus"), IdentifierToken("a")>>,
     <<MarkerToken("Bang"), IdentifierToken("a")>>,
     <<IdentifierToken("a"), MarkerToken("Plus"), IdentifierToken("b")>>,
     <<IdentifierToken("a"), MarkerToken("QuestionMark"), IdentifierToken("b"),
       MarkerToken("Colon"), IdentifierToken("a")>>}

TargetValues ==
    {<<NumberToken(2)>>,
     <<IdentifierToken("b"), MarkerToken("Plus"), NumberToken(1)>>,
     <<IdentifierToken("b"), MarkerToken("Equal"), NumberToken(2)>>}

(* target = value *)
TargetSources ==
    Forms({target \o <<MarkerToken("Equal")>> \o value :
            target \in Targets, value \in TargetValues})

(* 1 ? 2 : 3 and 1 ? 2 : 3 ? 4 : 5, written as chains *)
TernaryOperators == <<"QuestionMark", "Colon", "QuestionMark", "Colon">>

(* the sources of test_parse_ternary and test_parse_ternary_error, and    *)
(* ternaries with operands of the equality level and of looser levels     *)
TernaryExpressions ==
    {Chain(SubSeq(TernaryOperators, 1, 2), 1),
     Chain(TernaryOperators, 1),
     Chain(<<"QuestionMark", "QuestionMark", "Colon", "Colon">>, 1),
     Chain(<<"QuestionMark">>, 1),
     Chain(<<"QuestionMark", "Plus">>, 1),
     Chain(<<"EqualEqual", "QuestionMark", "Plus", "Colon", "Less">>, 1),
     Chain(<<"QuestionMark", "Colon", "Comma">>, 1),
     Chain(<<"Comma", "QuestionMark", "Colon">>, 1),
     <<NumberToken(1), MarkerToken("QuestionMark"), IdentifierToken("a"),
       MarkerToken("Equal"), NumberToken(2), MarkerToken("Colon"), NumberToken(3)>>,
     <<NumberToken(1), MarkerToken("QuestionMark"), NumberToken(2), MarkerToken("Colon"),
       IdentifierToken("a"), MarkerToken("Equal"), NumberToken(3)>>}

TernarySources == Forms(TernaryExpressions)

(* comma chains: the sources of test_evaluate_binary_comma_expression,    *)
(* test_comma_error_left and test_comma_error_right, and chains whose      *)
(* operands assign or fail                                                 *)
CommaEvaluated ==
    {<<"1", ",", "2", ",", "3">>,
     <<"1", ",", "2", ",", "3", ",", "4", ",", "5">>,
     <<"1", "+", "2", ",", "3", "/", "5", ",", "5", "/", "2">>,
     <<"3", "/", "0", ",", "2", "+", "3">>,
     <<"2", "+", "3", ",", "3", "/", "0">>,
     <<"a", "=", "3", ",", "a", "+", "1">>,
     <<"a", "=", "3", ",", "b", "=", "a", ",", "a", "=", "b", "+", "1">>,
     <<"1", "/", "0", ",", "a", "=", "3">>,
     <<"a", "=", "3", ",", "1", "/", "0">>,
     <<"1", "/", "0", ",", "2", "/", "0">>,
     <<"a", "=", "3", ",", "2", "/", "0", ",", "1", "/", "0">>}

CommaPrograms ==
    {PrintProgram(Scan(words)) : words \in CommaEvaluated}
    \cup {Scan(words) : words \in CommaEvaluated}

(* divisions: by a literal zero and by a computed one, alone and inside a *)
(* grouping, a unary, a binary, a comma, a ternary and an assignment       *)
DivisionEvaluated ==
    {<<"1", "/", "0">>,
     <<"0", "/", "0">>,
     <<"1", "/", "(", "1", "-", "1", ")">>,
     <<"(", "1", "/", "2", ")", "/", "0">>,
     <<"1", "/", "2">>,
     <<"0", "/", "1">>,
     <<"(", "1", "/", "0", ")">>,
     <<"-", "(", "1", "/", "0", ")">>,
     <<"!", "(", "1", "/", "0", ")">>,
     <<"1", "/", "0", "+", "2">>,
     <<"2", "+", "1", "/", "0">>,
     <<"2", "*", "(", "3", "/", "0", ")">>,
     <<"1", "/", "0", "==", "1", "/", "0">>,
     <<"1", "/", "0", "<", "2">>,
     <<"1", "/", "0", ",", "2">>,
     <<"2", ",", "1", "/", "0">>,
     <<"1", "/", "0", "?", "1", ":", "2">>,
     <<"false", "?", "1", "/", "0", ":", "2">>,
     <<"a", "=", "1", "/", "0">>,
     <<"a", "=", "b", "=", "4", "/", "(", "a", "-", "1", ")">>}

DivisionPrograms ==
    {PrintProgram(Scan(words)) : words \in DivisionEvaluated}
    \cup {Scan(words) : words \in DivisionEvaluated}

(* the literals: numbers, strings, booleans and nil *)
LiteralWords == {"0", "1", "2", "\"\"", "\"a\"", "\"1\"", "true", "false", "nil"}

ValueOperators == {"!=", "==", ">", ">=", "<", "<=", "-", "+", "/", "*"}

(* literal op literal, for every pair of literals *)
PairEvaluated == {<<v, op, w>> : v \in LiteralWords, op \in ValueOperators, w \in LiteralWords}

(* operands that are computed: the sources of                             *)
(* test_evaluate_binary_strings_expression and                             *)
(* test_evaluate_binary_bool_expression, and mixed ones                    *)
ComputedEvaluated ==
    {<<"\"a\"", "+", "\"1\"", "+", "\"a\"">>,
     <<"1", "+", "2", "+", "\"a\"">>,
     <<"\"a\"", "+", "1", "+", "2">>,
     <<"1", "/", "2", "+", "\"a\"">>,
     <<"\"a\"", "+", "(", "1", "==", "1", ")">>,
     <<"(", "1", "<", "2", ")", "+", "1">>,
     <<"1", "+", "2", "==", "6", "/", "2">>,
     <<"!", "(", "2", "*", "3", "!=", "2", "+", "2", "+", "2", ")">>,
     <<"\"a\"", "+", "\"\"", "==", "\"a\"">>,
     <<"\"\"", "+", "1", "==", "1">>,
     <<"\"\"", "+", "1", "==", "\"1\"">>,
     <<"(", "1", "<", "2", ")", "==", "true">>,
     <<"(", "1", "<", "2", ")", "<", "2">>,
     <<"\"a\"", "+", "\"a\"", "-", "\"a\"">>,
     <<"\"\"", "+", "nil", "!=", "nil">>,
     <<"1", "/", "2", "!=", "2", "/", "4">>,
     <<"nil", "==", "nil", "==", "true">>}

(* ! v, ! ! v and - v for every literal v (- 0 left out: the numbers of    *)
(* the model have one zero)                                                *)
UnaryEvaluated ==
    {<<"!", v>> : v \in LiteralWords}
    \cup {<<"!", "!", v>> : v \in LiteralWords}
    \cup {<<"-", v>> : v \in LiteralWords \ {"0"}}
    \cup {<<"!", "(", "1", "<", "2", ")">>,
          <<"!", "!", "(", "1", "-", "1", ")">>,
          <<"!", "(", "\"\"", "+", "\"\"", ")">>,
          <<"!", "-", "1">>,
          <<"-", "-", "1">>,
          <<"-", "(", "1", "+", "2", ")">>,
          <<"-", "(", "1", "/", "2", ")">>,
          <<"-", "!", "1">>,
          <<"-", "(", "\"a\"", "+", "1", ")">>,
          <<"-", "(", "1", "==", "1", ")">>}

ValuePrograms ==
    {Scan(words) : words \in PairEvaluated \cup ComputedEvaluated \cup UnaryEvaluated}
    \cup {PrintProgram(Scan(words)) : words \in ComputedEvaluated \cup UnaryEvaluated}

(* sources whose parse fails: a token no statement can start with or go   *)
(* on with, some tokens to skip, a token synchronize stops at, and a rest  *)
Boundaries == {"class", "fun", "var", "for", "if", "while", "print", "return", ";"}

SynchronizeSources ==
    {Scan(start \o skipped \o stop \o rest) :
        start \in {<<")">>, <<"1", "1">>, <<"print">>, <<"1", ";", "+">>, <<"var", "1">>},
        skipped \in {<<>>, <<"1">>, <<"1", "+">>},
        stop \in {<<>>} \cup {<<word>> : word \in Boundaries},
        rest \in {<<>>, <<"1">>, <<";">>}}
    \cup {Scan(<<"1", word, "a", ";", "1">>) : word \in Boundaries}

(* the sources of test_parse_identifier and                                *)
(* test_parse_and_scanned_unary_and_primary, with the names of the model   *)
IdentifierSources ==
    {Scan(<<name>>) : name \in Names}
    \cup {Scan(<<"-", "1", "+", name, "==", "5">>) : name \in Names}

(* an expression followed by tokens that do not go on with it, and starts  *)
(* that are no expression                                                  *)
PrefixSources ==
    {Scan(words) : words \in
        {<<"1", "2">>, <<"1", "+", "2", ")">>, <<"1", ";", "var">>, <<"a", "2">>,
         <<"1", ",", "2", "3">>, <<"1", "/", "0", "2">>, <<"1", "+", "2">>,
         <<")", "1">>, <<"1", "+", ")">>, <<"(", "1", "2">>, <<"print", "1">>}}

Sources ==
    {source \o <<Eof>> :
        source \in ShortSources \cup ExpressionSources \cup AssignmentSources
                    \cup TestSources \cup TargetSources \cup TernarySources
                    \cup TernaryPrograms \cup CommaPrograms \cup DivisionPrograms
                    \cup ValuePrograms \cup SynchronizeSources
                    \cup IdentifierSources \cup PrefixSources}

-----------------------------------------------------------------------------
(* run_file: run(source) from the parser on, then the exit *)

Interpret(statements, env, out) == ExecuteAll(statements, env, out)

InitRun ==
    /\ tokens \in Sources
    /\ parsed = NotParsed
    /\ HAD_ERROR = FALSE
    /\ exit_status = -1
    /\ pc = "parse"
    /\ ScannersIdle
    /\ PromptIdle
    /\ statement = <<>>
    /\ executed = 0
    /\ environment = EnvironmentNew
    /\ output = <<>>
    /\ result = NotReturned

(* let statements = parser.parse(); *)
RunParse ==
    /\ pc = "parse"
    /\ \E r \in {Parse(ParserNew(tokens))} :
           /\ parsed' = [statements |-> r.res, expression |-> NotParsed,
                         current |-> r.p.current, trail |-> r.p.trail]
           /\ output' = output \o r.p.out
           /\ HAD_ERROR' = (HAD_ERROR \/ r.p.had_error)
           /\ pc' = IF r.res.ok THEN "interpret" ELSE "fallback"
    /\ UNCHANGED <<tokens, exit_status, statement, executed, environment, result>>
    /\ UNCHANGED scanVars
    /\ UNCHANGED lines

(* mutant of RunInterpret: the interpreter of the line before goes on *)
RunInterpretKeepsEnvironment ==
    /\ pc = "interpret"
    /\ \E r \in {Interpret(parsed.statements.val, environment, output)} :
           /\ environment' = r.env
           /\ result' = r.res
           /\ output' = IF r.res.ok THEN r.out ELSE Append(r.out, r.res.err)
           /\ HAD_ERROR' = (HAD_ERROR \/ ~r.res.ok)
    /\ executed' = Len(parsed.statements.val)
    /\ pc' = "exit"
    /\ UNCHANGED <<tokens, parsed, exit_status, statement>>
    /\ UNCHANGED scanVars
    /\ UNCHANGED lines

(* Ok(statements) => a new interpreter interprets them *)
RunInterpret ==
    /\ pc = "interpret"
    /\ \E r \in {Interpret(parsed.statements.val, EnvironmentNew, output)} :
           /\ environment' = r.env
           /\ result' = r.res
           /\ output' = IF r.res.ok THEN r.out ELSE Append(r.out, r.res.err)
           /\ HAD_ERROR' = (HAD_ERROR \/ ~r.res.ok)
    /\ executed' = Len(parsed.statements.val)
    /\ pc' = "exit"
    /\ UNCHANGED <<tokens, parsed, exit_status, statement>>
    /\ UNCHANGED scanVars
    /\ UNCHANGED lines

(* Err(err) => a new parser parses the tokens as one expression, a new     *)
(* interpreter evaluates it                                                *)
RunFallback ==
    /\ pc = "fallback"
    /\ \E e \in {ParseExpression(ParserNew(tokens))} :
           /\ parsed' = [parsed EXCEPT !.expression = e.res, !.current = e.p.current,
                                      !.trail = e.p.trail]
           /\ IF e.res.ok
              THEN \E v \in {EvaluateExpression(e.res.val, EnvironmentNew)} :
                   /\ environment' = v.env
                   /\ result' = v.res
                   /\ output' = Append(output \o e.p.out,
                                       IF v.res.ok THEN DisplayValue(v.res.val)
                                       ELSE v.res.err)
                   /\ HAD_ERROR' = (HAD_ERROR \/ e.p.had_error \/ ~v.res.ok)
              ELSE /\ output' = Append(output \o e.p.out, parsed.statements.err)
                   /\ HAD_ERROR' = TRUE
                   /\ UNCHANGED <<environment, result>>
    /\ pc' = "exit"
    /\ UNCHANGED <<tokens, exit_status, statement, executed>>
    /\ UNCHANGED scanVars
    /\ UNCHANGED lines

(* if *HAD_ERROR.lock().unwrap() { exit(65); } and else the return from main *)
RunFileExit ==
    /\ pc = "exit"
    /\ exit_status' = IF HAD_ERROR THEN 65 ELSE 0
    /\ pc' = "exited"
    /\ UNCHANGED <<tokens, parsed, HAD_ERROR, interpVars>>
    /\ UNCHANGED scanVars
    /\ UNCHANGED lines

NextRun == RunParse \/ RunInterpret \/ RunFallback \/ RunFileExit

SpecRun == InitRun /\ [][NextRun]_vars

-----------------------------------------------------------------------------
(* The scanner at work: each thread of the process (the tests of the       *)
(* scanner run as threads of one process) scans its source, one            *)
(* scan_token at a time, and then reads HAD_ERROR, which all share.        *)

MaxBody == 3   \* characters between the opening of a block comment and its end

Threads == {1, 2}

CommentAlphabet == {"a", "*", "/", "\n", " "}

Bodies == UNION {[1..k -> CommentAlphabet] : k \in 0..MaxBody}

(* the characters hold a closing star-slash *)
Closes(chars) == \E i \in 1..Len(chars) - 1 : chars[i] = "*" /\ chars[i + 1] = "/"

OpenBodies == {body \in Bodies : ~Closes(body)}

(* a block comment, alone or with a number after it *)
ClosedComments ==
    {<<"/", "*">> \o body \o <<"*", "/">> \o rest :
        body \in OpenBodies, rest \in {<<>>, <<"1">>}}

(* a block comment that is never closed *)
UnclosedComments == {<<"/", "*">> \o body : body \in OpenBodies}

(* the source of small_lox_program, and other sources without an error *)
SmallLoxProgram == <<"v", "a", "r", " ", "a", " ", "=", " ", "1", ";">>

CleanSources == {SmallLoxProgram, <<"1", ".", "5">>, <<>>}

ScanSources == ClosedComments \cup UnclosedComments \cup CleanSources

(* what the other thread scans: the sources of small_lox_program and, cut  *)
(* short, of test_error                                                    *)
OtherSources == {SmallLoxProgram, <<"/", "*", " ", "a", "\n", " ", "b">>}

InitScan ==
    /\ \E first \in ScanSources, other \in OtherSources :
            scanners = [t \in Threads |-> ScannerNew(IF t = 1 THEN first ELSE other)]
    /\ observed = [t \in Threads |-> FALSE]
    /\ pc = [t \in Threads |-> "scan"]
    /\ HAD_ERROR = FALSE
    /\ output = <<>>
    /\ tokens = <<>>
    /\ parsed = NotParsed
    /\ exit_status = -1
    /\ statement = <<>>
    /\ executed = 0
    /\ environment = EnvironmentNew
    /\ result = NotReturned
    /\ PromptIdle

notScanVars ==
    <<tokens, parsed, exit_status, statement, executed, environment, result, lines>>

(* one turn of the loop of scan_tokens: self.start = self.current;         *)
(* self.scan_token(); an error goes to report, which prints it and sets    *)
(* HAD_ERROR                                                               *)
ScanStep(t) ==
    /\ pc[t] = "scan"
    /\ ~ScannerIsAtEnd(scanners[t])
    /\ \E sc \in {ScanToken([scanners[t] EXCEPT !.start = scanners[t].current])} :
           /\ scanners' = [scanners EXCEPT ![t] = sc]
           /\ output' = output \o SubSeq(sc.out, Len(scanners[t].out) + 1, Len(sc.out))
           /\ HAD_ERROR' = (HAD_ERROR \/ Len(sc.out) > Len(scanners[t].out))
           /\ pc' = [pc EXCEPT ![t] = IF sc.panicked THEN "panicked" ELSE "scan"]
    /\ UNCHANGED <<observed, notScanVars>>

(* the loop is over: the Eof token is pushed and the tokens are returned *)
ScanReturn(t) ==
    /\ pc[t] = "scan"
    /\ ScannerIsAtEnd(scanners[t])
    /\ scanners' = [scanners EXCEPT ![t] = ScanEnd(scanners[t])]
    /\ pc' = [pc EXCEPT ![t] = "scanned"]
    /\ UNCHANGED <<observed, output, HAD_ERROR, notScanVars>>

(* *rlox::HAD_ERROR.lock().unwrap(), read after scan_tokens has returned *)
ReadHadError(t) ==
    /\ pc[t] = "scanned"
    /\ observed' = [observed EXCEPT ![t] = HAD_ERROR]
    /\ pc' = [pc EXCEPT ![t] = "done"]
    /\ UNCHANGED <<scanners, output, HAD_ERROR, notScanVars>>

NextScan == \E t \in Threads : ScanStep(t) \/ ScanReturn(t) \/ ReadHadError(t)

SpecScan == InitScan /\ [][NextScan]_vars

-----------------------------------------------------------------------------
(* run_prompt: the interactive mode.  Each line read is handed to run,     *)
(* whose steps are RunParse, RunInterpret and RunFallback; HAD_ERROR is    *)
(* set to false after it.  The lines are taken as the tokens scan_tokens   *)
(* returns on them (none has a lexical error).                             *)

MaxLines == 3   \* lines read at the prompt

PromptLines ==
    {Scan(words) \o <<Eof>> : words \in
        {<<"var", "a", "=", "1", ";">>,
         <<"var", "b", "=", "2", ";">>,
         <<"var", "a", "=", "1", ";", "print", "a", ";">>,
         <<"print", "a", ";">>,
         <<"a", "=", "2", ";">>,
         <<"var", "b", "=", "a", ";">>,
         <<"a">>,
         <<"print", "1", ";">>,
         <<"1", "/", "0", ";">>,
         <<")">>}}

InitPrompt ==
    /\ pc = "prompt"
    /\ lines = <<>>
    /\ tokens = <<>>
    /\ parsed = NotParsed
    /\ HAD_ERROR = FALSE
    /\ exit_status = -1
    /\ ScannersIdle
    /\ statement = <<>>
    /\ executed = 0
    /\ environment = EnvironmentNew
    /\ output = <<>>
    /\ result = NotReturned

(* print!("> "); reader.read_line(&mut line); run(line) starts *)
PromptRead ==
    /\ pc = "prompt"
    /\ Len(lines) < MaxLines
    /\ \E line \in PromptLines :
           /\ tokens' = line
           /\ lines' = Append(lines, line)
    /\ output' = Append(output, "> ")
    /\ parsed' = NotParsed
    /\ pc' = "parse"
    /\ UNCHANGED <<HAD_ERROR, exit_status, statement, executed, environment, result>>
    /\ UNCHANGED scanVars

(* run has returned: *HAD_ERROR.lock().unwrap() = false; and the loop goes *)
(* on to the next prompt                                                   *)
PromptReset ==
    /\ pc = "exit"
    /\ HAD_ERROR' = FALSE
    /\ pc' = "prompt"
    /\ UNCHANGED <<tokens, parsed, exit_status, lines, interpVars>>
    /\ UNCHANGED scanVars

(* the line read is quit: break; println!("Bye!"); exit(0) *)
PromptQuit ==
    /\ pc = "prompt"
    /\ output' = Append(Append(output, "> "), "Bye!")
    /\ exit_status' = 0
    /\ pc' = "exited"
    /\ UNCHANGED <<tokens, parsed, HAD_ERROR, lines, statement, executed, environment,
                   result>>
    /\ UNCHANGED scanVars

(* read_line fails: println!("Error reading line"); exit(66) *)
PromptReadError ==
    /\ pc = "prompt"
    /\ output' = Append(Append(output, "> "), "Error reading line")
    /\ exit_status' = 66
    /\ pc' = "exited"
    /\ UNCHANGED <<tokens, parsed, HAD_ERROR, lines, statement, executed, environment,
                   result>>
    /\ UNCHANGED scanVars

NextPrompt ==
    \/ PromptRead
    \/ RunParse
    \/ RunInterpret
    \/ RunFallback
    \/ PromptReset
    \/ PromptQuit
    \/ PromptReadError

SpecPrompt == InitPrompt /\ [][NextPrompt]_vars

-----------------------------------------------------------------------------
(* Vocabulary of the properties of the interpreter *)

Stepped == executed' = executed + 1

RECURSIVE BoundOnChain(_, _)
BoundOnChain(env, name) ==
    \/ name \in DOMAIN env.values
    \/ env.enclosing # NoEnclosing /\ BoundOnChain(env.enclosing[1], name)

UndefinedMessage(name) ==
    CASE name = "a" -> "Undefined variable 'a'."
      [] name = "b" -> "Undefined variable 'b'."

IsPrefix(s, t) == Len(s) <= Len(t) /\ SubSeq(t, 1, Len(s)) = s

(* an assignment to name occurs in the expression / statement *)
RECURSIVE ExprAssigns(_, _)
ExprAssigns(e, name) ==
    CASE e.kind = "Assign" -> e.name.lexeme = name \/ ExprAssigns(e.value, name)
      [] e.kind = "Binary" -> ExprAssigns(e.left, name) \/ ExprAssigns(e.right, name)
      [] e.kind = "Ternary" ->
            ExprAssigns(e.left, name) \/ ExprAssigns(e.middle, name)
            \/ ExprAssigns(e.right, name)
      [] e.kind = "Unary" -> ExprAssigns(e.right, name)
      [] e.kind = "Grouping" -> ExprAssigns(e.expression, name)
      [] OTHER -> FALSE

RECURSIVE StmtAssigns(_, _)
StmtAssigns(stmt, name) ==
    CASE stmt.kind = "Block" ->
            \E i \in DOMAIN stmt.statements : StmtAssigns(stmt.statements[i], name)
      [] stmt.kind = "Var" -> ExprAssigns(stmt.initializer, name)
      [] OTHER -> ExprAssigns(stmt.expression, name)

(* a var declaration of name occurs in the statement *)
RECURSIVE StmtDeclares(_, _)
StmtDeclares(stmt, name) ==
    CASE stmt.kind = "Block" ->
            \E i \in DOMAIN stmt.statements : StmtDeclares(stmt.statements[i], name)
      [] stmt.kind = "Var" -> stmt.name.lexeme = name
      [] OTHER -> FALSE

-----------------------------------------------------------------------------
(* C1: a variable declared outside a block and assigned inside it (at any  *)
(* nesting depth) reads, after the block has exited normally, as the value *)
(* assigned inside the block.                                              *)
C1_AssignmentInBlockReachesOuterScope ==
    \A n \in Names, k \in 1..MaxDepth :
        (/\ statement = Nest(k, StmtExpression(Set(n, Number(3))))
         /\ result = NotReturned)
        => Get(environment, n) = Ok(ValueNumber(RatInt(3)))

(* C2: a block leaves the interpreter's environment as it was at block     *)
(* entry, on the normal and on the error exit: no enclosing link and no    *)
(* binding is left over.                                                   *)
C2_BlockRestoresEnvironmentOnEveryExit ==
    [][(Stepped /\ statement'.kind = "Block")
        => /\ environment'.enclosing = environment.enclosing
           /\ DOMAIN environment'.values = DOMAIN environment.values]_vars

(* C3: after a block has exited normally, every name the block declares    *)
(* with var (and does not assign) resolves as it did before the block: to  *)
(* the outer value, or to the undefined-variable error; inside the block a *)
(* lookup of the redeclared name gives the inner value.                    *)
C3_BlockDeclarationsEndWithBlock ==
    [][(Stepped /\ statement'.kind = "Block")
        => /\ result' = NotReturned =>
                \A n \in Names :
                    (StmtDeclares(statement', n) /\ ~StmtAssigns(statement', n))
                    => Get(environment', n) = Get(environment, n)
           /\ \A n \in Names, i \in Numbers :
                statement' = StmtBlock(<<StmtVar(IdentifierToken(n), Number(i)),
                                         StmtPrint(Var(n))>>)
                => output' = Append(output, ToString(i))]_vars

C3_Witness ==
    /\ statement = StmtBlock(<<StmtVar(IdentifierToken("a"), Number(2)), StmtPrint(Var("a"))>>)
    /\ result = NotReturned
    /\ Get(environment, "a") = Ok(ValueNumber(RatInt(1)))
    /\ ~BoundOnChain(environment, "b")
    /\ output = <<"2">>


(* C4: interpret takes the statements in order and returns at the first    *)
(* one that fails, with that statement's error: nothing runs afterwards,   *)
(* and what the earlier statements printed, defined and assigned stands.   *)
C4_InterpretStopsAtFirstError ==
    [][/\ result # NotReturned
            => UNCHANGED <<statement, executed, environment, output, result>>
       /\ Stepped =>
            /\ IsPrefix(output, output')
            /\ result' # NotReturned =>
                /\ ~result'.ok
                /\ \A n \in Names :
                        (~StmtDeclares(statement', n) /\ ~StmtAssigns(statement', n))
                        => Get(environment', n) = Get(environment, n)
            /\ statement' = StmtExpression(OneByZero) =>
                /\ result' = Err("Division by zero: 1 / 0")
                /\ output' = output
                /\ environment' = environment
            /\ \A n \in Names :
                (statement' = StmtBlock(<<StmtPrint(Var(n)), StmtExpression(OneByZero)>>)
                 /\ BoundOnChain(environment, n))
                => /\ result' = Err("Division by zero: 1 / 0")
                   /\ output' = Append(output, DisplayValue(Get(environment, n).val))]_vars

C4_Witness ==
    /\ executed = 3
    /\ statement = StmtExpression(OneByZero)
    /\ result = Err("Division by zero: 1 / 0")
    /\ output = <<"1">>
    /\ Get(environment, "a") = Ok(ValueNumber(RatInt(1)))

(* C5: reading or assigning a name bound nowhere on the environment chain  *)
(* fails with "Undefined variable '<name>'." and changes no binding: the   *)
(* failed assignment does not create the name.                             *)
C5_UndefinedVariableIsAnErrorWithoutEffect ==
    [][\A n \in Names :
        (/\ Stepped
         /\ ~BoundOnChain(environment, n)
         /\ statement' \in {StmtPrint(Var(n)), StmtExpression(Set(n, Number(3)))})
        => /\ result' = Err(UndefinedMessage(n))
           /\ environment' = environment
           /\ ~BoundOnChain(environment', n)
           /\ output' = output]_vars

C5_Witness ==
    /\ statement = StmtExpression(Set("b", Number(3)))
    /\ result = Err("Undefined variable 'b'.")
    /\ "a" \in DOMAIN environment.values
    /\ ~BoundOnChain(environment, "b")

-----------------------------------------------------------------------------
(* Vocabulary of the properties of the parser and the driver *)

Parsed == pc \in {"interpret", "fallback", "exit", "exited"}
JustParsed == pc \in {"interpret", "fallback"}
Ran == pc \in {"exit", "exited"}

Semicolon == MarkerToken("Semicolon")

(* the tokens an expression / a statement is written with *)
RECURSIVE UnparseExpr(_)
UnparseExpr(e) ==
    CASE e.kind = "Literal" -> <<e.token>>
      [] e.kind = "Variable" -> <<e.name>>
      [] e.kind = "Grouping" ->
            <<MarkerToken("LeftParen")>> \o UnparseExpr(e.expression)
            \o <<MarkerToken("RightParen")>>
      [] e.kind = "Unary" -> <<e.operator>> \o UnparseExpr(e.right)
      [] e.kind = "Binary" -> UnparseExpr(e.left) \o <<e.operator>> \o UnparseExpr(e.right)
      [] e.kind = "Ternary" ->
            UnparseExpr(e.left) \o <<e.operator1>> \o UnparseExpr(e.middle)
            \o <<e.operator2>> \o UnparseExpr(e.right)
      [] e.kind = "Assign" -> <<e.name, MarkerToken("Equal")>> \o UnparseExpr(e.value)

RECURSIVE UnparseStmt(_)
RECURSIVE UnparseAll(_)
UnparseAll(statements) ==
    IF statements = <<>> THEN <<>>
    ELSE UnparseStmt(Head(statements)) \o UnparseAll(Tail(statements))

UnparseStmt(stmt) ==
    CASE stmt.kind = "Expression" -> UnparseExpr(stmt.expression) \o <<Semicolon>>
      [] stmt.kind = "Print" ->
            <<MarkerToken("Print")>> \o UnparseExpr(stmt.expression) \o <<Semicolon>>
      [] stmt.kind = "Var" ->
            <<MarkerToken("Var"), stmt.name>>
            \o (IF stmt.initializer.kind = "Literal" /\ stmt.initializer.token.line = 0
                THEN <<>>
                ELSE <<MarkerToken("Equal")>> \o UnparseExpr(stmt.initializer))
            \o <<Semicolon>>
      [] stmt.kind = "Block" ->
            <<MarkerToken("LeftBrace")>> \o UnparseAll(stmt.statements)
            \o <<MarkerToken("RightBrace")>>

(* the grammar's level of a binary operator, the loosest first *)
Level(op) ==
    CASE op = "Comma" -> 1
      [] op \in {"BangEqual", "EqualEqual"} -> 2
      [] op \in {"Greater", "GreaterEqual", "Less", "LessEqual"} -> 3
      [] op \in {"Minus", "Plus"} -> 4
      [] op \in {"Slash", "Star"} -> 5

OperatorSequences == UNION {[1..k -> BinaryOperators] : k \in 1..(MaxOperands - 1)}

SameLevel(ops) == \A i, j \in DOMAIN ops : Level(ops[i]) = Level(ops[j])

(* ((1 op 2) op 3) ... up to the operator at place k *)
RECURSIVE LeftNested(_, _)
LeftNested(ops, k) ==
    IF k = 0 THEN Number(1)
    ELSE Binary(LeftNested(ops, k - 1), MarkerToken(ops[k]), Number(k + 1))

(* the forms of a source made of one expression: the expression alone,    *)
(* an expression statement, a print statement                              *)
IsStatement == Len(tokens) >= 2 /\ tokens[Len(tokens) - 1] = Semicolon
IsPrint == IsStatement /\ tokens[1] = MarkerToken("Print")

(* the tokens of the expression in such a source *)
ExpressionTokens ==
    IF IsPrint THEN SubSeq(tokens, 2, Len(tokens) - 2)
    ELSE IF IsStatement THEN SubSeq(tokens, 1, Len(tokens) - 2)
    ELSE SubSeq(tokens, 1, Len(tokens) - 1)

(* the run has parsed the expression of the source as expr: in the         *)
(* statement parse() returns, or in what expression() returns for a source *)
(* that is no statement                                                    *)
ParsedAs(expr) ==
    IF IsPrint THEN parsed.statements = Ok(<<StmtPrint(expr)>>)
    ELSE IF IsStatement THEN parsed.statements = Ok(<<StmtExpression(expr)>>)
    ELSE Ran => parsed.expression = Ok(expr)

(* every source whose expression is among the cases is parsed as the case  *)
(* says                                                                    *)
ParsesAs(cases) ==
    Parsed => \A c \in cases : ExpressionTokens = c.source => ParsedAs(c.expr)

Prints(source, line) ==
    (Ran /\ tokens = <<MarkerToken("Print")>> \o source \o <<Semicolon, Eof>>)
        => output = <<line>>

Operand(u, i) == IF u = "" THEN Number(i) ELSE Unary(MarkerToken(u), Number(i))

Case(source, expr) == [source |-> source, expr |-> expr]

(* the chains of operators of one level, with their left-nested tree *)
LeftAssociativeCases ==
    {Case(Chain(ops, 1), LeftNested(ops, Len(ops))) :
        ops \in {o \in OperatorSequences : SameLevel(o)}}

(* 1 L 2 T 3 and 1 T 2 L 3 for a looser L and a tighter T, with the tree   *)
(* that gives T its operands first                                         *)
PrecedenceCases ==
    LET pairs == {lt \in BinaryOperators \X BinaryOperators : Level(lt[1]) < Level(lt[2])}
    IN  {Case(Chain(<<lt[1], lt[2]>>, 1),
              Binary(Number(1), MarkerToken(lt[1]),
                     Binary(Number(2), MarkerToken(lt[2]), Number(3)))) : lt \in pairs}
        \cup
        {Case(Chain(<<lt[2], lt[1]>>, 1),
              Binary(Binary(Number(1), MarkerToken(lt[2]), Number(2)),
                     MarkerToken(lt[1]), Number(3))) : lt \in pairs}

(* [u] 1 op [v] 2 with the unary operators applied to 1 and to 2 alone *)
UnaryCases ==
    {Case(Prefix(u) \o <<NumberToken(1), MarkerToken(op)>> \o Prefix(v)
          \o <<NumberToken(2)>>,
          Binary(Operand(u, 1), MarkerToken(op), Operand(v, 2))) :
        u \in UnaryOperators \cup {""}, v \in UnaryOperators \cup {""},
        op \in BinaryOperators}

(* the assigned expressions: their tokens, their tree, their value where a *)
(* is 1 and b is 2, and what a and b are once they are evaluated           *)
Assigned ==
    {[source |-> <<NumberToken(3)>>, expr |-> Number(3), value |-> 3, a |-> 1, b |-> 2],
     [source |-> <<IdentifierToken("a"), MarkerToken("Plus"), NumberToken(1)>>,
      expr |-> Binary(Var("a"), MarkerToken("Plus"), Number(1)),
      value |-> 2, a |-> 1, b |-> 2],
     [source |-> <<IdentifierToken("a"), MarkerToken("Equal"), IdentifierToken("a"),
                   MarkerToken("Plus"), NumberToken(1)>>,
      expr |-> Set("a", Binary(Var("a"), MarkerToken("Plus"), Number(1))),
      value |-> 2, a |-> 2, b |-> 2],
     [source |-> <<MarkerToken("LeftParen"), IdentifierToken("b"), MarkerToken("Equal"),
                   IdentifierToken("b"), MarkerToken("Star"), NumberToken(3),
                   MarkerToken("RightParen")>>,
      expr |-> Grouping(Set("b", Binary(Var("b"), MarkerToken("Star"), Number(3)))),
      value |-> 6, a |-> 1, b |-> 6]}

ChainedAssignment(x, y, e) ==
    <<IdentifierToken(x), MarkerToken("Equal"), IdentifierToken(y), MarkerToken("Equal")>>
    \o e.source

PreludeStatements ==
    <<StmtVar(IdentifierToken("a"), Number(1)), StmtVar(IdentifierToken("b"), Number(2))>>

(* the value of name after x = y = e *)
After(name, x, y, e) ==
    IF name \in {x, y} THEN e.value ELSE IF name = "a" THEN e.a ELSE e.b

-----------------------------------------------------------------------------
(* C6: for declared a and b, x = y = e parses as Assign(x, Assign(y, e)),  *)
(* evaluates e once (the assignments inside e take effect one time),       *)
(* leaves x and y bound to the value of e, and yields that value: the      *)
(* print statement prints it.                                              *)
C6_ChainedAssignmentIsRightAssociative ==
    \A x \in Names, y \in Names, e \in Assigned :
      LET tree == Assign(IdentifierToken(x), Assign(IdentifierToken(y), e.expr))
          source == Prelude \o ChainedAssignment(x, y, e) \o <<Semicolon, Eof>>
          printed == Prelude \o <<MarkerToken("Print")>> \o ChainedAssignment(x, y, e)
                     \o <<Semicolon, Eof>>
      IN  /\ (Parsed /\ tokens = source)
                => parsed.statements = Ok(Append(PreludeStatements, StmtExpression(tree)))
          /\ (Parsed /\ tokens = printed)
                => parsed.statements = Ok(Append(PreludeStatements, StmtPrint(tree)))
          /\ (Ran /\ tokens \in {source, printed})
                => /\ result = Ok(<<>>)
                   /\ \A n \in Names :
                        environment.values[n] = ValueNumber(RatInt(After(n, x, y, e)))
                   /\ output = IF tokens = printed THEN <<ToString(e.value)>> ELSE <<>>
                   /\ ~HAD_ERROR

C6_Witness ==
    /\ pc = "exited"
    /\ \E e \in Assigned :
        /\ e.value = 2 /\ e.a = 2
        /\ tokens = Prelude \o <<MarkerToken("Print")>> \o ChainedAssignment("b", "b", e)
                    \o <<Semicolon, Eof>>
    /\ environment.values["a"] = ValueNumber(RatInt(2))
    /\ environment.values["b"] = ValueNumber(RatInt(2))
    /\ output = <<"2">>

(* C7: in script mode, when parse() returns Err or the interpretation      *)
(* returns a runtime error, the had-error flag is true when run returns    *)
(* and the exit status is 65.                                              *)
C7_ScriptModeExitsWith65OnAnyError ==
    /\ (Ran /\ (~parsed.statements.ok \/ (result # NotReturned /\ ~result.ok)))
            => HAD_ERROR
    /\ (pc = "exited" /\ (~parsed.statements.ok \/ (result # NotReturned /\ ~result.ok)))
            => exit_status = 65

(* C8: parse() returns at the first syntax error: the Err carries the      *)
(* message of the first declaration that fails (the declarations before it *)
(* parse alone, the rest fails alone with that message), no statement      *)
(* comes with it, at most one error is reported during the call, and an    *)
(* Ok result holds the declarations of all the tokens up to Eof.           *)
C8_ParseReturnsFirstSyntaxError ==
    /\ JustParsed => Len(output) <= 1
    /\ (Parsed /\ parsed.statements.ok)
            => /\ UnparseAll(parsed.statements.val) \o <<Eof>> = tokens
               /\ parsed.current = Len(tokens) - 1
               /\ JustParsed => output = <<>>
    /\ (Parsed /\ ~parsed.statements.ok)
            => /\ parsed.statements.val = <<>>
               /\ \A k \in 0..(Len(tokens) - 1) :
                    LET before == Parse(ParserNew(SubSeq(tokens, 1, k) \o <<Eof>>))
                        rest == Parse(ParserNew(SubSeq(tokens, k + 1, Len(tokens))))
                    IN  before.res.ok => rest.res = parsed.statements
    /\ (Parsed /\ tokens = Prelude \o PrintSum \o <<Eof>>)
            => parsed.statements = Err("Expect ';' after expression.")
    /\ (Parsed /\ tokens = <<MarkerToken("Var"), IdentifierToken("a"), MarkerToken("Equal"),
                            Semicolon, Eof>>)
            => parsed.statements = Err("Expect expression.")
    /\ (Parsed /\ tokens = <<NumberToken(1), Semicolon, MarkerToken("Var"), Eof>>)
            => parsed.statements = Err("Expect variable name.")
    /\ (Parsed /\ tokens = Prelude \o PrintSum \o <<Semicolon, Eof>>)
            => parsed.statements =
                    Ok(Append(PreludeStatements,
                              StmtPrint(Binary(Var("a"), MarkerToken("Plus"), Var("b")))))

C8_Witness ==
    /\ pc = "fallback"
    /\ tokens = Prelude \o PrintSum \o <<Eof>>
    /\ parsed.statements = Err("Expect ';' after expression.")
    /\ output = <<"[line 1] Error  at end: Expect ';' after expression.">>

(* C9: every binary level is left-associative: a chain 1 op 2 op 3 ... of  *)
(* operators of one level parses as (((1 op 2) op 3) ...), and so          *)
(* 1 - 2 - 3 is -4.                                                        *)
C9_BinaryLevelsAreLeftAssociative ==
    /\ ParsesAs(LeftAssociativeCases)
    /\ Prints(Chain(<<"Minus", "Minus">>, 1), "-4")

C9_Witness ==
    /\ pc = "exited"
    /\ tokens = <<MarkerToken("Print")>> \o Chain(<<"Minus", "Minus">>, 1)
                \o <<Semicolon, Eof>>
    /\ parsed.statements =
            Ok(<<StmtPrint(Binary(Binary(Number(1), MarkerToken("Minus"), Number(2)),
                                  MarkerToken("Minus"), Number(3)))>>)
    /\ output = <<"-4">>

(* C10: precedence is comma < equality < comparison < addition <           *)
(* multiplication < unary: for a looser operator L and a tighter T,        *)
(* 1 L 2 T 3 parses as Binary(1, L, Binary(2, T, 3)) and 1 T 2 L 3 as      *)
(* Binary(Binary(1, T, 2), L, 3); a unary operator applies to the operand  *)
(* that follows it only; and so 1 + 2 * 3 is 7.                            *)
C10_PrecedenceFollowsGrammarOrder ==
    /\ ParsesAs(PrecedenceCases)
    /\ ParsesAs(UnaryCases)
    /\ Prints(Chain(<<"Plus", "Star">>, 1), "7")
    /\ Prints(Chain(<<"Star", "Plus">>, 1), "5")

C10_Witness ==
    /\ pc = "exited"
    /\ tokens = <<MarkerToken("Print")>> \o Chain(<<"Plus", "Star">>, 1)
                \o <<Semicolon, Eof>>
    /\ parsed.statements =
            Ok(<<StmtPrint(Binary(Number(1), MarkerToken("Plus"),
                                  Binary(Number(2), MarkerToken("Star"), Number(3))))>>)
    /\ output = <<"7">>

-----------------------------------------------------------------------------
(* the values written right of the `=`, with their trees *)
TargetValueCases ==
    {Case(<<NumberToken(2)>>, Number(2)),
     Case(<<IdentifierToken("b"), MarkerToken("Plus"), NumberToken(1)>>,
          Binary(Var("b"), MarkerToken("Plus"), Number(1))),
     Case(<<IdentifierToken("b"), MarkerToken("Equal"), NumberToken(2)>>,
          Set("b", Number(2)))}

InvalidTarget == Err("Invalid assignment target.")

(* C11: an `=` is accepted only after an expression that is exactly a      *)
(* Variable, and gives Assign(name, value); after a literal, a grouping, a *)
(* unary, a binary or a ternary expression, with a value that parses, the  *)
(* parser returns "Invalid assignment target." and no tree (parse() and    *)
(* expression() alike), without reporting.                                 *)
C11_OnlyVariableIsAssignmentTarget ==
    Parsed =>
        \A target \in Targets, value \in TargetValueCases :
            ExpressionTokens = target \o <<MarkerToken("Equal")>> \o value.source =>
                IF target = <<IdentifierToken("a")>>
                THEN ParsedAs(Set("a", value.expr))
                ELSE /\ parsed.statements = InvalidTarget
                     /\ JustParsed => output = <<>>
                     /\ (Ran /\ ~IsPrint) => parsed.expression = InvalidTarget

C11_Witness ==
    /\ pc = "exited"
    /\ tokens = <<MarkerToken("LeftParen"), IdentifierToken("a"), MarkerToken("RightParen"),
                  MarkerToken("Equal"), NumberToken(2), Semicolon, Eof>>
    /\ parsed.statements = InvalidTarget
    /\ parsed.expression = InvalidTarget
    /\ output = <<"Invalid assignment target.">>

-----------------------------------------------------------------------------
TernaryOf(left, middle, right) ==
    Ternary(left, MarkerToken("QuestionMark"), middle, MarkerToken("Colon"), right)

(* ternaries that parse, with their trees: the operands are of the         *)
(* equality level, a comma is outside the ternary                          *)
TernaryCases ==
    {Case(Chain(SubSeq(TernaryOperators, 1, 2), 1),
          TernaryOf(Number(1), Number(2), Number(3))),
     Case(Chain(<<"EqualEqual", "QuestionMark", "Plus", "Colon", "Less">>, 1),
          TernaryOf(Binary(Number(1), MarkerToken("EqualEqual"), Number(2)),
                    Binary(Number(3), MarkerToken("Plus"), Number(4)),
                    Binary(Number(5), MarkerToken("Less"), Number(6)))),
     Case(Chain(<<"QuestionMark", "Colon", "Comma">>, 1),
          Binary(TernaryOf(Number(1), Number(2), Number(3)), MarkerToken("Comma"),
                 Number(4))),
     Case(Chain(<<"Comma", "QuestionMark", "Colon">>, 1),
          Binary(Number(1), MarkerToken("Comma"),
                 TernaryOf(Number(2), Number(3), Number(4))))}

(* sources where the token after the middle operand is not a `:` *)
MissingColon ==
    {Chain(<<"QuestionMark">>, 1),
     Chain(<<"QuestionMark", "Plus">>, 1),
     Chain(<<"QuestionMark", "QuestionMark", "Colon", "Colon">>, 1),
     <<NumberToken(1), MarkerToken("QuestionMark"), IdentifierToken("a"),
       MarkerToken("Equal"), NumberToken(2), MarkerToken("Colon"), NumberToken(3)>>}

ExpectColon == Err("Expect ':' after expression.")
ExpectSemicolon == Err("Expect ';' after expression.")

(* C12: the ternary level takes one `? :` and parses its three operands at *)
(* the equality level: of 1 ? 2 : 3 ? 4 : 5 only Ternary(1, 2, 3) is       *)
(* built, the second `?` stays unconsumed and the statement fails with     *)
(* "Expect ';' after expression."; a middle operand not followed by `:`    *)
(* gives "Expect ':' after expression.".                                   *)
C12_TernaryTakesOneConditional ==
    /\ ParsesAs(TernaryCases)
    /\ (Parsed /\ ExpressionTokens = Chain(TernaryOperators, 1)) =>
            /\ parsed.statements = ExpectSemicolon
            /\ JustParsed =>
                    output = <<"[line 1] Error  at '?': Expect ';' after expression.">>
            /\ (Ran /\ ~IsPrint) =>
                    /\ parsed.expression = Ok(TernaryOf(Number(1), Number(2), Number(3)))
                    /\ parsed.current = 5
                    /\ tokens[parsed.current + 1] = MarkerToken("QuestionMark")
    /\ (Parsed /\ ExpressionTokens \in MissingColon) =>
            /\ parsed.statements = ExpectColon
            /\ JustParsed => Len(output) = 1
            /\ (Ran /\ ~IsPrint) => parsed.expression = ExpectColon

C12_Witness ==
    /\ pc = "exited"
    /\ tokens = Chain(TernaryOperators, 1) \o <<Semicolon, Eof>>
    /\ parsed.statements = ExpectSemicolon
    /\ parsed.expression = Ok(TernaryOf(Number(1), Number(2), Number(3)))
    /\ parsed.current = 5

-----------------------------------------------------------------------------
(* Vocabulary of the properties of evaluation *)

V(i) == ValueNumber(RatInt(i))

(* what a program that prints the expression of these words does: the line *)
(* it prints or the error it ends with, and the values of a and b after it *)
Outcome(words, ok, line, a, b) ==
    [words |-> words, ok |-> ok, line |-> line, a |-> a, b |-> b]

(* the run of var a = 1; var b = 2; print <words>; ends as the outcome says *)
EndsAs(c) ==
    (Ran /\ tokens = PrintProgram(Scan(c.words)) \o <<Eof>>) =>
        /\ parsed.statements.ok
        /\ output = <<c.line>>
        /\ result = IF c.ok THEN Ok(<<>>) ELSE Err(c.line)
        /\ HAD_ERROR = ~c.ok
        /\ environment.values["a"] = c.a
        /\ environment.values["b"] = c.b

(* the run of the expression alone (no statement: run evaluates it after   *)
(* parse() has failed) ends with this Result                               *)
YieldsAlone(words, res) ==
    (Ran /\ tokens = Scan(words) \o <<Eof>>) => result = res

DivisionOf(left, right) ==
    "Division by zero: " \o ToString(left) \o " / " \o ToString(right)

TernaryOutcomes ==
    {Outcome(<<"true", "?", "1", ":", "2">>, TRUE, "1", V(1), V(2)),
     Outcome(<<"false", "?", "1", ":", "2">>, TRUE, "2", V(1), V(2)),
     Outcome(<<"1", "!=", "2", "?", "1", "+", "2", ":", "2", "-", "1">>,
             TRUE, "3", V(1), V(2)),
     Outcome(<<"1", "==", "2", "?", "1", "+", "2", ":", "2", "-", "1">>,
             TRUE, "1", V(1), V(2)),
     Outcome(<<"1", "==", "2", "?", "1", "/", "0", ":", "2", "+", "3">>,
             FALSE, DivisionOf(1, 0), V(1), V(2)),
     Outcome(<<"true", "?", "1", ":", "1", "/", "0">>, FALSE, DivisionOf(1, 0), V(1), V(2)),
     Outcome(<<"0", "?", "1", ":", "2">>, TRUE, "1", V(1), V(2)),
     Outcome(<<"\"\"", "?", "1", ":", "2">>, TRUE, "1", V(1), V(2)),
     Outcome(<<"nil", "?", "1", ":", "2">>, TRUE, "2", V(1), V(2)),
     Outcome(<<"true", "?", "(", "a", "=", "3", ")", ":", "(", "a", "=", "4", ")">>,
             TRUE, "3", V(4), V(2)),
     Outcome(<<"false", "?", "(", "a", "=", "3", ")", ":", "(", "a", "=", "4", ")">>,
             TRUE, "4", V(4), V(2)),
     Outcome(<<"(", "a", "=", "3", ")", "?", "a", ":", "(", "a", "=", "4", ")">>,
             TRUE, "3", V(4), V(2)),
     Outcome(<<"(", "a", "=", "nil", ")", "?", "(", "b", "=", "a", ")", ":", "a">>,
             TRUE, "nil", ValueNil, ValueNil),
     Outcome(<<"true", "?", "(", "a", "=", "3", ")", ":", "1", "/", "0">>,
             FALSE, DivisionOf(1, 0), V(3), V(2)),
     Outcome(<<"true", "?", "1", "/", "0", ":", "(", "a", "=", "4", ")">>,
             FALSE, DivisionOf(1, 0), V(1), V(2))}

(* C13: a ternary evaluates its condition, its middle and its right        *)
(* operand, in that order, before it selects: the value is the middle one  *)
(* for a truthy condition and the right one otherwise, and an error or an  *)
(* assignment in the branch that is not selected still happens.            *)
C13_TernaryEvaluatesAllOperands ==
    /\ \A c \in TernaryOutcomes : EndsAs(c)
    /\ YieldsAlone(<<"true", "?", "1", ":", "2">>, Ok(V(1)))
    /\ YieldsAlone(<<"false", "?", "1", ":", "2">>, Ok(V(2)))
    /\ YieldsAlone(<<"1", "==", "2", "?", "1", "/", "0", ":", "2", "+", "3">>,
                   Err(DivisionOf(1, 0)))

C13_Witness ==
    /\ pc = "exited"
    /\ tokens = PrintProgram(Scan(<<"true", "?", "(", "a", "=", "3", ")", ":",
                                    "(", "a", "=", "4", ")">>)) \o <<Eof>>
    /\ output = <<"3">>
    /\ environment.values["a"] = V(4)

-----------------------------------------------------------------------------
CommaOutcomes ==
    {Outcome(<<"1", ",", "2", ",", "3">>, TRUE, "3", V(1), V(2)),
     Outcome(<<"1", ",", "2", ",", "3", ",", "4", ",", "5">>, TRUE, "5", V(1), V(2)),
     Outcome(<<"1", "+", "2", ",", "3", "/", "5", ",", "5", "/", "2">>,
             TRUE, "2.5", V(1), V(2)),
     Outcome(<<"3", "/", "0", ",", "2", "+", "3">>, FALSE, DivisionOf(3, 0), V(1), V(2)),
     Outcome(<<"2", "+", "3", ",", "3", "/", "0">>, FALSE, DivisionOf(3, 0), V(1), V(2)),
     Outcome(<<"a", "=", "3", ",", "a", "+", "1">>, TRUE, "4", V(3), V(2)),
     Outcome(<<"a", "=", "3", ",", "b", "=", "a", ",", "a", "=", "b", "+", "1">>,
             TRUE, "4", V(4), V(3)),
     Outcome(<<"1", "/", "0", ",", "a", "=", "3">>, FALSE, DivisionOf(1, 0), V(1), V(2)),
     Outcome(<<"a", "=", "3", ",", "1", "/", "0">>, FALSE, DivisionOf(1, 0), V(3), V(2)),
     Outcome(<<"1", "/", "0", ",", "2", "/", "0">>, FALSE, DivisionOf(1, 0), V(1), V(2)),
     Outcome(<<"a", "=", "3", ",", "2", "/", "0", ",", "1", "/", "0">>,
             FALSE, DivisionOf(2, 0), V(3), V(2))}

(* C14: a comma chain evaluates its operands from left to right (a later   *)
(* operand sees what an earlier one assigned), yields the value of the     *)
(* last operand, and fails with the error of the first operand that fails, *)
(* the operands after it not being evaluated.                              *)
C14_CommaEvaluatesLeftToRight ==
    /\ \A c \in CommaOutcomes : EndsAs(c)
    /\ YieldsAlone(<<"1", ",", "2", ",", "3">>, Ok(V(3)))
    /\ YieldsAlone(<<"1", ",", "2", ",", "3", ",", "4", ",", "5">>, Ok(V(5)))
    /\ YieldsAlone(<<"1", "+", "2", ",", "3", "/", "5", ",", "5", "/", "2">>,
                   Ok(ValueNumber(Rat(5, 2))))
    /\ YieldsAlone(<<"3", "/", "0", ",", "2", "+", "3">>, Err(DivisionOf(3, 0)))
    /\ YieldsAlone(<<"2", "+", "3", ",", "3", "/", "0">>, Err(DivisionOf(3, 0)))
    /\ YieldsAlone(<<"1", "/", "0", ",", "a", "=", "3">>, Err(DivisionOf(1, 0)))
    /\ YieldsAlone(<<"a", "=", "3", ",", "1", "/", "0">>, Err("Undefined variable 'a'."))

C14_Witness ==
    /\ pc = "exited"
    /\ tokens = PrintProgram(Scan(<<"a", "=", "3", ",", "b", "=", "a", ",",
                                    "a", "=", "b", "+", "1">>)) \o <<Eof>>
    /\ output = <<"4">>
    /\ environment.values["a"] = V(4)
    /\ environment.values["b"] = V(3)

-----------------------------------------------------------------------------
(* the expression fails with this error, alone and in the program, which   *)
(* leaves a and b as declared and exits with 65                            *)
FailsWith(words, message) ==
    /\ EndsAs(Outcome(words, FALSE, message, V(1), V(2)))
    /\ (pc = "exited" /\ tokens = PrintProgram(Scan(words)) \o <<Eof>>) => exit_status = 65

(* expressions in which 1 is divided by zero *)
DividesOneByZero ==
    {<<"1", "/", "0">>,
     <<"1", "/", "(", "1", "-", "1", ")">>,
     <<"(", "1", "/", "0", ")">>,
     <<"-", "(", "1", "/", "0", ")">>,
     <<"!", "(", "1", "/", "0", ")">>,
     <<"1", "/", "0", "+", "2">>,
     <<"2", "+", "1", "/", "0">>,
     <<"1", "/", "0", "==", "1", "/", "0">>,
     <<"1", "/", "0", "<", "2">>,
     <<"1", "/", "0", ",", "2">>,
     <<"2", ",", "1", "/", "0">>,
     <<"1", "/", "0", "?", "1", ":", "2">>,
     <<"false", "?", "1", "/", "0", ":", "2">>,
     <<"a", "=", "1", "/", "0">>}

(* C15: a Number divided by a Number that is zero yields no value but the  *)
(* error "Division by zero: <left> / <right>", whether the zero is written *)
(* or computed; the error comes unchanged out of a grouping, a unary, a    *)
(* binary, a comma, a ternary, an assignment, and out of interpret.        *)
C15_DivisionByZeroIsAnError ==
    /\ \A words \in DividesOneByZero : FailsWith(words, DivisionOf(1, 0))
    /\ FailsWith(<<"0", "/", "0">>, DivisionOf(0, 0))
    /\ FailsWith(<<"(", "1", "/", "2", ")", "/", "0">>, "Division by zero: 0.5 / 0")
    /\ FailsWith(<<"2", "*", "(", "3", "/", "0", ")">>, DivisionOf(3, 0))
    /\ FailsWith(<<"a", "=", "b", "=", "4", "/", "(", "a", "-", "1", ")">>, DivisionOf(4, 0))
    /\ EndsAs(Outcome(<<"1", "/", "2">>, TRUE, "0.5", V(1), V(2)))
    /\ EndsAs(Outcome(<<"0", "/", "1">>, TRUE, "0", V(1), V(2)))
    /\ YieldsAlone(<<"1", "/", "0">>, Err(DivisionOf(1, 0)))
    /\ YieldsAlone(<<"1", "/", "(", "1", "-", "1", ")">>, Err(DivisionOf(1, 0)))
    /\ YieldsAlone(<<"-", "(", "1", "/", "0", ")">>, Err(DivisionOf(1, 0)))
    /\ YieldsAlone(<<"!", "(", "1", "/", "0", ")">>, Err(DivisionOf(1, 0)))
    /\ YieldsAlone(<<"1", "/", "0", "==", "1", "/", "0">>, Err(DivisionOf(1, 0)))
    /\ YieldsAlone(<<"1", "/", "2">>, Ok(ValueNumber(Rat(1, 2))))

C15_Witness ==
    /\ pc = "exited"
    /\ tokens = PrintProgram(Scan(<<"2", "*", "(", "3", "/", "0", ")">>)) \o <<Eof>>
    /\ result = Err("Division by zero: 3 / 0")
    /\ output = <<"Division by zero: 3 / 0">>
    /\ exit_status = 65

-----------------------------------------------------------------------------
(* Vocabulary of the properties of the operators: a source literal op      *)
(* literal, evaluated by run as an expression                              *)

IsLiteral(token) == token.token_type.tag \in {"Number", "String", "True", "False", "Nil"}

(* the value a literal denotes *)
ValueOf(token) ==
    CASE token.token_type.tag = "Number" -> ValueNumber(token.token_type.num)
      [] token.token_type.tag = "String" -> ValueString(token.token_type.str)
      [] token.token_type.tag = "True" -> ValueBoolean(TRUE)
      [] token.token_type.tag = "False" -> ValueBoolean(FALSE)
      [] token.token_type.tag = "Nil" -> ValueNil

(* the display form of the value of a literal; the numbers are integers *)
Shown(value) ==
    CASE value.tag = "Number" -> ToString(value.num.n)
      [] value.tag = "String" -> value.str
      [] value.tag = "Boolean" -> IF value.bool THEN "true" ELSE "false"
      [] value.tag = "Nil" -> "nil"

(* run has evaluated literal op literal, op being one of the tags *)
PairOf(tags) ==
    /\ Ran
    /\ Len(tokens) = 4
    /\ IsLiteral(tokens[1])
    /\ tokens[2].token_type.tag \in tags
    /\ IsLiteral(tokens[3])

Left == ValueOf(tokens[1])
Right == ValueOf(tokens[3])
BothNumbers == Left.tag = "Number" /\ Right.tag = "Number"

Failed == ~result.ok /\ HAD_ERROR /\ output[Len(output)] = result.err

(* C16: + yields a String whenever an operand is a String: the display     *)
(* form of the left value followed by that of the right one, a Number, a   *)
(* Boolean or Nil being stringified; on two Numbers it yields their sum;   *)
(* on two operands without a String that are not both Numbers it is an     *)
(* error.                                                                  *)
C16_PlusConcatenatesWithAString ==
    /\ PairOf({"Plus"}) =>
            IF Left.tag = "String" \/ Right.tag = "String"
            THEN result = Ok(ValueString(Shown(Left) \o Shown(Right)))
            ELSE IF BothNumbers
            THEN result = Ok(V(Left.num.n + Right.num.n))
            ELSE Failed
    /\ YieldsAlone(<<"\"a\"", "+", "\"1\"", "+", "\"a\"">>, Ok(ValueString("a1a")))
    /\ YieldsAlone(<<"1", "+", "2", "+", "\"a\"">>, Ok(ValueString("3a")))
    /\ YieldsAlone(<<"\"a\"", "+", "1", "+", "2">>, Ok(ValueString("a12")))
    /\ YieldsAlone(<<"1", "/", "2", "+", "\"a\"">>, Ok(ValueString("0.5a")))
    /\ YieldsAlone(<<"\"a\"", "+", "(", "1", "==", "1", ")">>, Ok(ValueString("atrue")))
    /\ YieldsAlone(<<"(", "1", "<", "2", ")", "+", "1">>,
                   Err("Unexpected values: 'true' and '1' for Binary Expression: true + 1"))
    /\ EndsAs(Outcome(<<"\"a\"", "+", "1", "+", "2">>, TRUE, "a12", V(1), V(2)))

C16_Witness ==
    /\ pc = "exited"
    /\ tokens = Scan(<<"nil", "+", "\"a\"">>) \o <<Eof>>
    /\ result = Ok(ValueString("nila"))

(* the value of op on the numbers of two number literals; the quotient is  *)
(* the number q with q * right = left                                      *)
NumberResult(op, l, r) ==
    CASE op = "Greater" -> result = Ok(ValueBoolean(l > r))
      [] op = "Less" -> result = Ok(ValueBoolean(l < r))
      [] op = "GreaterEqual" -> result = Ok(ValueBoolean(l >= r))
      [] op = "LessEqual" -> result = Ok(ValueBoolean(l <= r))
      [] op = "Minus" -> result = Ok(V(l - r))
      [] op = "Star" -> result = Ok(V(l * r))
      [] op = "Slash" ->
            IF r = 0 THEN Failed
            ELSE /\ result.ok
                 /\ result.val.tag = "Number"
                 /\ result.val.num.n * r = l * result.val.num.d

NumbersOnly == {"Greater", "Less", "GreaterEqual", "LessEqual", "Minus", "Star", "Slash"}

(* C17: > < >= <= - * / return a value only when both operands are        *)
(* Numbers; on every other pair of operands, Strings included, they return *)
(* an error and never a value.                                             *)
C17_ComparisonAndArithmeticNeedNumbers ==
    /\ PairOf(NumbersOnly) =>
            IF BothNumbers
            THEN NumberResult(tokens[2].token_type.tag, Left.num.n, Right.num.n)
            ELSE Failed
    /\ YieldsAlone(<<"\"a\"", "+", "\"a\"", "-", "\"a\"">>,
                   Err("Unexpected token type: '-' for Binary Expression"))
    /\ YieldsAlone(<<"(", "1", "<", "2", ")", "<", "2">>,
                   Err("Unexpected values: 'true' and '2' for Binary Expression: true < 2"))
    /\ FailsWith(<<"(", "1", "<", "2", ")", "<", "2">>,
                 "Unexpected values: 'true' and '2' for Binary Expression: true < 2")
    /\ YieldsAlone(<<"\"a\"", "<", "\"1\"">>,
                   Err("Unexpected values: 'a' and '1' for Binary Expression: a < 1"))
    /\ YieldsAlone(<<"\"1\"", "*", "2">>,
                   Err("Unexpected token type: '*' for Binary Expression"))

C17_Witness ==
    /\ pc = "exited"
    /\ tokens = Scan(<<"\"a\"", ">=", "\"a\"">>) \o <<Eof>>
    /\ ~result.ok
    /\ exit_status = 65

(* the operands are of the same variant and carry the same payload *)
SameVariantAndPayload == Left.tag = Right.tag /\ Shown(Left) = Shown(Right)

(* C18: == and != never fail and never coerce: on every pair of values     *)
(* they return a Boolean; a == b is true only for values of the same       *)
(* variant with the same payload, and a != b is the negation of a == b.    *)
C18_EqualityIsStructuralAndTotal ==
    /\ PairOf({"EqualEqual"}) => result = Ok(ValueBoolean(SameVariantAndPayload))
    /\ PairOf({"BangEqual"}) => result = Ok(ValueBoolean(~SameVariantAndPayload))
    /\ YieldsAlone(<<"1", "+", "2", "==", "6", "/", "2">>, Ok(ValueBoolean(TRUE)))
    /\ YieldsAlone(<<"\"a\"", "+", "\"\"", "==", "\"a\"">>, Ok(ValueBoolean(TRUE)))
    /\ YieldsAlone(<<"\"\"", "+", "1", "==", "1">>, Ok(ValueBoolean(FALSE)))
    /\ YieldsAlone(<<"\"\"", "+", "1", "==", "\"1\"">>, Ok(ValueBoolean(TRUE)))
    /\ YieldsAlone(<<"(", "1", "<", "2", ")", "==", "true">>, Ok(ValueBoolean(TRUE)))
    /\ YieldsAlone(<<"\"\"", "+", "nil", "!=", "nil">>, Ok(ValueBoolean(TRUE)))
    /\ YieldsAlone(<<"1", "/", "2", "!=", "2", "/", "4">>, Ok(ValueBoolean(FALSE)))
    /\ YieldsAlone(<<"nil", "==", "nil", "==", "true">>, Ok(ValueBoolean(TRUE)))
    /\ EndsAs(Outcome(<<"\"\"", "+", "1", "==", "1">>, TRUE, "false", V(1), V(2)))

C18_Witness ==
    /\ pc = "exited"
    /\ tokens = Scan(<<"\"1\"", "==", "1">>) \o <<Eof>>
    /\ result = Ok(ValueBoolean(FALSE))

(* Nil and Boolean(false) are the falsy values *)
Truthy(value) == value \notin {ValueNil, ValueBoolean(FALSE)}

(* run has evaluated the operators, one after the other, before a literal *)
UnaryOf(tags) ==
    /\ Ran
    /\ Len(tokens) = Len(tags) + 2
    /\ \A i \in 1..Len(tags) : tokens[i].token_type.tag = tags[i]
    /\ IsLiteral(tokens[Len(tags) + 1])

Operated == ValueOf(tokens[Len(tokens) - 1])

UnexpectedUnary(shown) ==
    "Unexpected value: '" \o shown \o "' for Unary Expression: -" \o shown

(* C19: ! never fails and returns the negation of the truthiness of its    *)
(* operand, Nil and Boolean(false) being the only falsy values (0 and ""   *)
(* are truthy), so ! ! v is Boolean(truthy(v)); unary - returns the        *)
(* negated number of a Number and an error on every other variant.         *)
C19_BangNegatesTruthinessMinusNegatesNumbers ==
    /\ UnaryOf(<<"Bang">>) => result = Ok(ValueBoolean(~Truthy(Operated)))
    /\ UnaryOf(<<"Bang", "Bang">>) => result = Ok(ValueBoolean(Truthy(Operated)))
    /\ UnaryOf(<<"Minus">>) =>
            IF Operated.tag = "Number"
            THEN result = Ok(V(0 - Operated.num.n))
            ELSE Failed /\ result = Err(UnexpectedUnary(Shown(Operated)))
    /\ YieldsAlone(<<"!", "(", "1", "<", "2", ")">>, Ok(ValueBoolean(FALSE)))
    /\ YieldsAlone(<<"!", "!", "(", "1", "-", "1", ")">>, Ok(ValueBoolean(TRUE)))
    /\ YieldsAlone(<<"!", "(", "\"\"", "+", "\"\"", ")">>, Ok(ValueBoolean(FALSE)))
    /\ YieldsAlone(<<"!", "-", "1">>, Ok(ValueBoolean(FALSE)))
    /\ YieldsAlone(<<"-", "-", "1">>, Ok(V(1)))
    /\ YieldsAlone(<<"-", "(", "1", "+", "2", ")">>, Ok(V(0 - 3)))
    /\ YieldsAlone(<<"-", "!", "1">>, Err(UnexpectedUnary("false")))
    /\ YieldsAlone(<<"-", "(", "\"a\"", "+", "1", ")">>, Err(UnexpectedUnary("a1")))
    /\ YieldsAlone(<<"-", "(", "1", "==", "1", ")">>, Err(UnexpectedUnary("true")))
    /\ EndsAs(Outcome(<<"!", "!", "0">>, TRUE, "true", V(1), V(2)))
    /\ EndsAs(Outcome(<<"!", "\"\"">>, TRUE, "false", V(1), V(2)))
    /\ EndsAs(Outcome(<<"-", "(", "1", "/", "2", ")">>, TRUE, "-0.5", V(1), V(2)))
    /\ FailsWith(<<"-", "nil">>, UnexpectedUnary("nil"))

C19_Witness ==
    /\ pc = "exited"
    /\ tokens = Scan(<<"!", "!", "\"\"">>) \o <<Eof>>
    /\ result = Ok(ValueBoolean(TRUE))

-----------------------------------------------------------------------------
(* Vocabulary of the properties of synchronize                             *)

(* parse() has just returned an error: synchronize has run *)
ParseFailed == pc = "fallback"

EndOfInput == Len(tokens) - 1

(* the cursor is at the end of the input, or just after a ;, or at a token *)
(* a statement starts with                                                 *)
AtBoundary(cursor) ==
    \/ cursor = EndOfInput
    \/ cursor >= 1 /\ tokens[cursor].lexeme = ";"
    \/ tokens[cursor + 1].lexeme \in Boundaries \ {";"}

(* the parser of the tokens with its cursor at a place *)
ParserAt(cursor) == [ParserNew(tokens) EXCEPT !.current = cursor]

(* the cursor parse() is left with on these words *)
LeavesAt(words, cursor) ==
    (JustParsed /\ tokens = Scan(words) \o <<Eof>>) =>
        ~parsed.statements.ok /\ parsed.current = cursor

(* C20: synchronize advances the cursor by at least one token unless it is *)
(* at the end of the input; when it returns the cursor is at the Eof       *)
(* token, or the token before the cursor is ;, or the token at the cursor  *)
(* is one of class, fun, var, for, if, while, print, return; it never      *)
(* moves the cursor past the Eof token.                                    *)
C20_SynchronizeStopsAtABoundary ==
    /\ ParseFailed =>
            /\ parsed.current \in 1..EndOfInput
            /\ AtBoundary(parsed.current)
            /\ \A cursor \in 0..EndOfInput :
                    \E after \in {Synchronize(ParserAt(cursor)).current} :
                        /\ after \in cursor..EndOfInput
                        /\ cursor < EndOfInput => after > cursor
                        /\ AtBoundary(after)
    /\ LeavesAt(<<")", "print", "1">>, 1)
    /\ LeavesAt(<<")", "1", "+", ";", "1">>, 4)
    /\ LeavesAt(<<")", "1", "+">>, 3)
    /\ LeavesAt(<<"1", "var", "a", ";", "1">>, 4)
    /\ LeavesAt(<<"1", "print", "a", ";", "1">>, 4)
    /\ LeavesAt(<<"1", "class", "a", ";", "1">>, 4)
    /\ LeavesAt(<<"1", ";", "a", ";", "1">>, 5)
    /\ LeavesAt(<<"1", ";", "+", "1", "+", "while", ";">>, 5)
    /\ LeavesAt(<<"1", ";", "+", "return">>, 3)
    /\ LeavesAt(<<"print", "1">>, 2)
    /\ LeavesAt(<<"var", "1", "1", "if", "1">>, 3)
    /\ LeavesAt(<<"var", "1", ";", "1">>, 3)

C20_Witness ==
    /\ pc = "fallback"
    /\ tokens = Scan(<<"1", "var", "a", ";", "1">>) \o <<Eof>>
    /\ parsed.current = 4

-----------------------------------------------------------------------------
(* Vocabulary of the properties of the display form of an expression       *)

(* the expressions impl Display for Expr has an arm for *)
RECURSIVE Displayed(_)
Displayed(e) ==
    CASE e.kind = "Literal" -> TRUE
      [] e.kind = "Grouping" -> Displayed(e.expression)
      [] e.kind = "Unary" -> Displayed(e.right)
      [] e.kind = "Binary" -> Displayed(e.left) /\ Displayed(e.right)
      [] e.kind = "Ternary" -> Displayed(e.left) /\ Displayed(e.middle) /\ Displayed(e.right)
      [] OTHER -> FALSE

(* expression() of the tokens scan_tokens returns on the display form *)
Reparsed(e) == ParseExpression(ParserNew(ScanTokens(DisplayExpr(e)).tokens)).res

(* run has parsed the tokens as an expression, and the parser accepted it *)
Accepted ==
    /\ Ran
    /\ parsed.expression # NotParsed
    /\ parsed.expression.ok
    /\ Displayed(parsed.expression.val)

(* C21: for every expression the parser accepts, printing the AST in its   *)
(* display form (op left right), scanning that text and parsing it again   *)
(* yields an AST equal to the original one.                                *)
C21_DisplayFormParsesBackToTheExpression ==
    Accepted => Reparsed(parsed.expression.val) = Ok(parsed.expression.val)

-----------------------------------------------------------------------------
(* C22: an identifier token in primary position parses to a Literal node   *)
(* carrying the token: aux parses to Literal(Identifier aux) and           *)
(* -1 + aux == 5 has Literal(Identifier aux) as the right operand of +;    *)
(* evaluating it resolves the name through the environment.                *)
C22_IdentifierParsesToALiteral ==
    \A name \in Names :
        /\ (Ran /\ tokens = Scan(<<name>>) \o <<Eof>>) =>
                /\ parsed.expression = Ok(Literal(IdentifierToken(name)))
                /\ result = Err(UndefinedMessage(name))
        /\ (Ran /\ tokens = Scan(<<"-", "1", "+", name, "==", "5">>) \o <<Eof>>) =>
                parsed.expression =
                    Ok(Binary(Binary(Unary(MarkerToken("Minus"), Literal(NumberToken(1))),
                                     MarkerToken("Plus"),
                                     Literal(IdentifierToken(name))),
                              MarkerToken("EqualEqual"),
                              Literal(NumberToken(5))))

-----------------------------------------------------------------------------
(* Vocabulary of the properties of the scanner                             *)

(* the thread's scan is over: scan_tokens has returned or has panicked *)
Scanned(t) == pc[t] \in {"scanned", "done", "panicked"}

Source(t) == scanners[t].source

(* C23: a block comment produces no tokens: on every source slash-star     *)
(* body star-slash whose body holds no star-slash (newlines, single stars  *)
(* and slashes included) scan_tokens returns only the Eof token and        *)
(* reports no error; scanning resumes right after the first star-slash.    *)
C23_BlockCommentProducesNoTokens ==
    \A t \in Threads :
        (Scanned(t) /\ Source(t) \in ClosedComments) =>
            /\ pc[t] # "panicked"
            /\ ~scanners[t].had_error
            /\ [i \in DOMAIN scanners[t].tokens |-> scanners[t].tokens[i].token_type.tag]
                    = IF Source(t)[Len(Source(t))] = "1" THEN <<"Number", "Eof">>
                      ELSE <<"Eof">>

Unterminated(line) == "[line " \o ToString(line) \o "] Error : Unterminated block comment"

(* C24: scanning a source that opens a block comment and never closes it   *)
(* ends normally (no read past the end), reports "Unterminated block       *)
(* comment" and leaves HAD_ERROR true, whatever follows the opening (a     *)
(* trailing star, a slash in the body).                                    *)
C24_UnterminatedBlockCommentIsReported ==
    \A t \in Threads :
        (Scanned(t) /\ Source(t) \in UnclosedComments) =>
            /\ pc[t] # "panicked"
            /\ \E line \in 1..MaxBody + 1 : scanners[t].out = <<Unterminated(line)>>
            /\ HAD_ERROR

(* C25: whenever scan_tokens has completed on a source without a lexical   *)
(* error, HAD_ERROR reads false, whatever the other scanners of the        *)
(* process do meanwhile (small_lox_program asserts it after var a = 1;).   *)
C25_HadErrorIsFalseAfterACleanScan ==
    \A t \in Threads :
        (pc[t] = "done" /\ ~scanners[t].had_error) => observed[t] = FALSE

-----------------------------------------------------------------------------
(* Vocabulary of the properties of the cursor of the parser                *)

(* the tokens are not empty and their only Eof token is the last one *)
EndsWithEof ==
    /\ tokens # <<>>
    /\ \A i \in DOMAIN tokens : (tokens[i].token_type.tag = "Eof") = (i = Len(tokens))

NonDecreasing(seq) == \A i \in 1..Len(seq) - 1 : seq[i] <= seq[i + 1]

(* C26: on tokens that end with their only Eof token, in every state       *)
(* parse() or expression() reaches the cursor is between 0 and the index   *)
(* of Eof, it never decreases, and previous() is never evaluated with the  *)
(* cursor at 0 (no token is read out of bounds, synchronize included).     *)
C26_ParserCursorStaysInBounds ==
    (Parsed /\ EndsWithEof) =>
        /\ parsed.current \in 0..EndOfInput
        /\ \A i \in DOMAIN parsed.trail : parsed.trail[i] \in 1..EndOfInput
        /\ NonDecreasing(parsed.trail)
        /\ parsed.trail # <<>> => parsed.current = parsed.trail[Len(parsed.trail)]
        /\ parsed.trail = <<>> => parsed.current = 0

C26_Witness ==
    /\ pc = "fallback"
    /\ tokens = Scan(<<")", "1", ";", "1">>) \o <<Eof>>
    /\ parsed.trail = <<1, 1, 2, 2, 3, 3>>

-----------------------------------------------------------------------------
(* Vocabulary of the properties of the environment chain                   *)

(* the environments the interpreter goes through while it executes the     *)
(* statements from env: before and after each statement, blocks included   *)
RECURSIVE EnvironmentsIn(_, _)

EnvironmentsAfter(statements, env, first) ==
    {env, first.env}
    \cup (IF Head(statements).kind = "Block"
          THEN EnvironmentsIn(Head(statements).statements, BlockEnter(env))
          ELSE {})
    \cup (IF first.res.ok THEN EnvironmentsIn(Tail(statements), first.env) ELSE {})

EnvironmentsIn(statements, env) ==
    IF statements = <<>> THEN {env}
    ELSE EnvironmentsAfter(statements, env, ExecuteStatement(Head(statements), env, <<>>))

(* every name bound on the chain is bound in the map of the environment    *)
(* itself, and a lookup that succeeds is answered by that map              *)
Covered(env) ==
    \A name \in Names :
        BoundOnChain(env, name) =>
            /\ name \in DOMAIN env.values
            /\ Get(env, name) = Ok(env.values[name])

(* C27: in every state reached through interpret every name bound in an    *)
(* environment on the enclosing chain of the current environment is bound  *)
(* in the current environment's own map (block entry keeps the map and     *)
(* attaches a copy as enclosing), so a lookup that succeeds is answered by *)
(* the current map, never by an enclosing environment.                     *)
C27_CurrentMapCoversTheChain ==
    [][Stepped =>
          \A env \in EnvironmentsIn(<<statement'>>, environment) \cup {environment'} :
              Covered(env)]_vars

C27_Witness ==
    /\ environment.enclosing # NoEnclosing
    /\ environment.enclosing[1].enclosing # NoEnclosing
    /\ "a" \in DOMAIN environment.enclosing[1].enclosing[1].values
    /\ environment.values["a"] # environment.enclosing[1].enclosing[1].values["a"]

-----------------------------------------------------------------------------
(* Vocabulary of the properties of the interactive mode                    *)

(* run has returned on the line read last, which was written so *)
RanLine(words) == pc = "exit" /\ tokens = Scan(words) \o <<Eof>>

UndefinedA == Err("Undefined variable 'a'.")

(* C28: each call of run uses a fresh interpreter with an empty            *)
(* environment: at the prompt a variable defined by one line is not        *)
(* visible to a later line (reading or assigning it fails with an          *)
(* undefined-variable error), and HAD_ERROR is false again before every    *)
(* new prompt.                                                             *)
C28_EachLineStartsAfresh ==
    /\ pc = "prompt" => ~HAD_ERROR
    /\ RanLine(<<"print", "a", ";">>) => result = UndefinedA /\ HAD_ERROR
    /\ RanLine(<<"a", "=", "2", ";">>) => result = UndefinedA /\ HAD_ERROR
    /\ RanLine(<<"var", "b", "=", "a", ";">>) => result = UndefinedA /\ HAD_ERROR
    /\ RanLine(<<"a">>) => result = UndefinedA /\ HAD_ERROR
    /\ (RanLine(<<"a", "=", "2", ";">>) \/ RanLine(<<"var", "b", "=", "a", ";">>)) =>
            environment = EnvironmentNew
    /\ RanLine(<<"var", "b", "=", "2", ";">>) =>
            result = Ok(<<>>) /\ DOMAIN environment.values = {"b"}
    /\ RanLine(<<"var", "a", "=", "1", ";", "print", "a", ";">>) =>
            result = Ok(<<>>) /\ output[Len(output)] = "1"

C28_Witness ==
    /\ pc = "exit"
    /\ Len(lines) = 2
    /\ lines[1] = Scan(<<"var", "a", "=", "1", ";">>) \o <<Eof>>
    /\ lines[2] = Scan(<<"print", "a", ";">>) \o <<Eof>>
    /\ result = UndefinedA

-----------------------------------------------------------------------------
(* Vocabulary of the properties of the fallback                            *)

FellBack == Ran /\ ~parsed.statements.ok

LastLine == output[Len(output)]

(* the tokens that go on with an expression that is complete *)
Continuations == BinaryOperators \cup {"Question", "Equal"}

(* the fallback on these words parses the tokens before the cursor, leaves *)
(* the others and prints the line                                          *)
TakesPrefix(words, cursor, line) ==
    (FellBack /\ tokens = Scan(words) \o <<Eof>>) =>
        /\ parsed.expression.ok
        /\ parsed.current = cursor
        /\ LastLine = line

(* the fallback on these words prints the error of the statement parser *)
PrintsParseError(words, message) ==
    (FellBack /\ tokens = Scan(words) \o <<Eof>>) =>
        /\ ~parsed.expression.ok
        /\ parsed.statements.err = message
        /\ LastLine = message
        /\ HAD_ERROR

====
